---- MODULE Spec2Model ----
(***************************************************************************)
(* Model of the CI sandbox extension of the pi PR review action            *)
(* (ci-sandbox.ts): the restricted bash tool, the tool_call gate, the      *)
(* quote-aware scanner, the allowlist matcher, the git push validator and  *)
(* the path confinement guard.                                             *)
(*                                                                         *)
(* A JavaScript string is modelled as a sequence of one-character strings, *)
(* so that trimming, prefix tests, splitting and scanning are computed     *)
(* character by character as the code computes them.                       *)
(***************************************************************************)
EXTENDS Integers, Sequences, FiniteSets, TLC

VARIABLES
    env,      \* process.env: PI_BASH_ALLOWLIST, PI_PR_HEAD_REF, PI_ALLOW_FORCE
    event,    \* the tool call the agent makes: toolName and input
    gate,     \* what the tool_call handler returned for the event
    exec,     \* what the bash tool's execute did for the event
    fsys,     \* the file system the path guard looks at (symbolic links) and cwd
    pure,     \* one application of a pure function: its arguments and result
    run       \* one call of runRestrictedBash: its locals, its child and its promise

vars == <<env, event, gate, exec, fsys, pure, run>>

----------------------------------------------------------------------------
(* Characters and strings *)

SQ == "'"
DQ == "\""
BS == "\\"
NL == "\n"
CR == "\r"
TAB == "\t"
SP == " "

\* The grave accent (U+0060), which a TLA+ string cannot hold: one element named so.
BQ == "grave"

\* A value no string equals: JavaScript's undefined.
Undefined == <<"undefined">>

\* A value no string equals: a number given where a string is expected.
NotAString == <<"number">>

\* No call made yet: the value of a result before its operation ran.
Idle == [idle |-> TRUE]

\* A pure function about to be applied to args, and no function at all.
Applied(fn, args) == [fn |-> fn, args |-> args, done |-> FALSE, result |-> Idle]

NoCall == Applied("none", <<>>)

\* What /\s/ and String.prototype.trim treat as white space.
IsSpace(ch) == ch \in {SP, TAB, NL, CR}

StartsWith(s, p) == Len(p) <= Len(s) /\ SubSeq(s, 1, Len(p)) = p

EndsWith(s, p) == Len(p) <= Len(s) /\ SubSeq(s, Len(s) - Len(p) + 1, Len(s)) = p

Includes(s, p) == \E i \in 1..(Len(s) - Len(p) + 1) : SubSeq(s, i, i + Len(p) - 1) = p

RECURSIVE TrimStart(_)
TrimStart(s) == IF s # <<>> /\ IsSpace(Head(s)) THEN TrimStart(Tail(s)) ELSE s

RECURSIVE TrimEnd(_)
TrimEnd(s) ==
    IF s # <<>> /\ IsSpace(s[Len(s)]) THEN TrimEnd(SubSeq(s, 1, Len(s) - 1)) ELSE s

Trim(s) == TrimEnd(TrimStart(s))

RECURSIVE Concat(_)
Concat(ss) == IF ss = <<>> THEN <<>> ELSE Head(ss) \o Concat(Tail(ss))

RECURSIVE Join(_, _)
Join(ss, sep) ==
    IF ss = <<>> THEN <<>>
    ELSE IF Len(ss) = 1 THEN ss[1]
    ELSE ss[1] \o sep \o Join(Tail(ss), sep)

----------------------------------------------------------------------------
(* parseAllowlist, escapeRegex, matchWildcard *)

\* raw.split(/\r?\n|,/): the pieces between separators, empty pieces kept.
RECURSIVE SplitAllowlist(_, _)
SplitAllowlist(raw, cur) ==
    IF raw = <<>> THEN <<cur>>
    ELSE IF Len(raw) >= 2 /\ raw[1] = CR /\ raw[2] = NL
         THEN <<cur>> \o SplitAllowlist(SubSeq(raw, 3, Len(raw)), <<>>)
    ELSE IF raw[1] = NL \/ raw[1] = ","
         THEN <<cur>> \o SplitAllowlist(Tail(raw), <<>>)
    ELSE SplitAllowlist(Tail(raw), Append(cur, raw[1]))

RECURSIVE MapTrim(_)
MapTrim(ss) == IF ss = <<>> THEN <<>> ELSE <<Trim(Head(ss))>> \o MapTrim(Tail(ss))

IsAllowlistEntry(s) == Len(s) > 0 /\ ~StartsWith(s, <<"#">>)

parseAllowlist(raw) == SelectSeq(MapTrim(SplitAllowlist(raw, <<>>)), IsAllowlistEntry)

\* The characters escapeRegex puts a backslash before: [.*+?^${}()|[\]\\]
RegexMeta == {".", "*", "+", "?", "^", "$", "{", "}", "(", ")", "|", "[", "]", BS}

RECURSIVE escapeRegex(_)
escapeRegex(s) ==
    IF s = <<>> THEN <<>>
    ELSE (IF Head(s) \in RegexMeta THEN <<BS, Head(s)>> ELSE <<Head(s)>>)
         \o escapeRegex(Tail(s))

\* pattern.split("*"): the pieces between stars, empty pieces kept.
RECURSIVE SplitStar(_, _)
SplitStar(pattern, cur) ==
    IF pattern = <<>> THEN <<cur>>
    ELSE IF pattern[1] = "*" THEN <<cur>> \o SplitStar(Tail(pattern), <<>>)
    ELSE SplitStar(Tail(pattern), Append(cur, pattern[1]))

RECURSIVE MapEscape(_)
MapEscape(ss) ==
    IF ss = <<>> THEN <<>> ELSE <<escapeRegex(Head(ss))>> \o MapEscape(Tail(ss))

\* The source text of the regular expression matchWildcard builds.
WildcardRegexSource(pattern) ==
    <<"^">> \o Join(MapEscape(SplitStar(pattern, <<>>)), <<".", "*">>) \o <<"$">>

\* What a RegExp dot does not match (no s flag): the line terminators.
IsLineTerminator(ch) == ch \in {NL, CR}

\* The atoms of a regular expression body in the subset matchWildcard builds:
\* an escaped character or a plain character stands for itself, a dot for any
\* character but a line terminator, and a following star repeats the atom.
RECURSIVE RegexAtoms(_)
RegexAtoms(src) ==
    IF src = <<>> THEN <<>>
    ELSE LET escaped == src[1] = BS /\ Len(src) >= 2
             used    == IF escaped THEN 2 ELSE 1
             ch      == IF escaped THEN src[2] ELSE src[1]
             dot     == ~escaped /\ src[1] = "."
             star    == Len(src) > used /\ src[used + 1] = "*"
             rest    == SubSeq(src, used + (IF star THEN 2 ELSE 1), Len(src))
         IN  <<[dot |-> dot, ch |-> ch, star |-> star]>> \o RegexAtoms(rest)

AtomTakes(atom, ch) == IF atom.dot THEN ~IsLineTerminator(ch) ELSE atom.ch = ch

\* Whether atoms k.. match text j.. up to the end of the text.
RECURSIVE RegexMatchFrom(_, _, _, _)
RegexMatchFrom(atoms, k, text, j) ==
    IF k > Len(atoms) THEN j > Len(text)
    ELSE IF atoms[k].star
         THEN \/ RegexMatchFrom(atoms, k + 1, text, j)
              \/ /\ j <= Len(text)
                 /\ AtomTakes(atoms[k], text[j])
                 /\ RegexMatchFrom(atoms, k, text, j + 1)
    ELSE /\ j <= Len(text)
         /\ AtomTakes(atoms[k], text[j])
         /\ RegexMatchFrom(atoms, k + 1, text, j + 1)

\* new RegExp(source).test(text) for a source of the form ^body$.
RegexTest(source, text) ==
    RegexMatchFrom(RegexAtoms(SubSeq(source, 2, Len(source) - 1)), 1, text, 1)

matchWildcard(pattern, text) ==
    IF pattern = <<"*">> THEN FALSE
    ELSE IF StartsWith(pattern, <<"*">>) THEN FALSE
    ELSE RegexTest(WildcardRegexSource(pattern), text)

----------------------------------------------------------------------------
(* containsShellOperators, splitArgs *)

\* command.slice(i, i + 2), 1-based.
Slice2(command, i) == SubSeq(command, i, IF i + 1 <= Len(command) THEN i + 1 ELSE Len(command))

\* The loop of containsShellOperators from index i (1-based) with its two flags.
RECURSIVE ScanFrom(_, _, _, _)
ScanFrom(command, i, inSingle, inDouble) ==
    IF i > Len(command) THEN FALSE
    ELSE LET ch == command[i] IN
         IF ch = BS THEN ScanFrom(command, i + 2, inSingle, inDouble)
         ELSE IF ~inDouble /\ ch = SQ THEN ScanFrom(command, i + 1, ~inSingle, inDouble)
         ELSE IF ~inSingle /\ ch = DQ THEN ScanFrom(command, i + 1, inSingle, ~inDouble)
         ELSE IF inSingle \/ inDouble THEN ScanFrom(command, i + 1, inSingle, inDouble)
         ELSE IF ch = NL \/ ch = CR THEN TRUE
         ELSE IF Slice2(command, i) \in {<<"&", "&">>, <<"|", "|">>, <<"$", "(">>} THEN TRUE
         ELSE IF ch \in {";", "|", ">", "<", BQ, "&"} THEN TRUE
         ELSE ScanFrom(command, i + 1, inSingle, inDouble)

\* The scanner of the action's own copy of the sandbox
\* (.github/actions/pi-pr-review/ci-sandbox.ts): a substring test that
\* knows no quotes.
containsShellOperatorsAnywhere(command) ==
    \E bad \in { <<NL>>, <<CR>>, <<";">>, <<"&", "&">>, <<"|", "|">>, <<"|">>, <<">">>,
                 <<"<">>, <<BQ>>, <<"$", "(">> } : Includes(command, bad)

containsShellOperators(command) == ScanFrom(command, 1, FALSE, FALSE)

\* The loop of splitArgs from index i with out, cur and its two flags.
RECURSIVE SplitFrom(_, _, _, _, _, _)
SplitFrom(cmd, i, out, cur, inSingle, inDouble) ==
    IF i > Len(cmd) THEN (IF Len(cur) > 0 THEN Append(out, cur) ELSE out)
    ELSE LET ch == cmd[i] IN
         IF ch = BS
         THEN IF i + 1 <= Len(cmd)
              THEN SplitFrom(cmd, i + 2, out, Append(cur, cmd[i + 1]), inSingle, inDouble)
              ELSE SplitFrom(cmd, i + 1, out, cur, inSingle, inDouble)
         ELSE IF ~inDouble /\ ch = SQ THEN SplitFrom(cmd, i + 1, out, cur, ~inSingle, inDouble)
         ELSE IF ~inSingle /\ ch = DQ THEN SplitFrom(cmd, i + 1, out, cur, inSingle, ~inDouble)
         ELSE IF ~inSingle /\ ~inDouble /\ IsSpace(ch)
         THEN IF Len(cur) > 0
              THEN SplitFrom(cmd, i + 1, Append(out, cur), <<>>, inSingle, inDouble)
              ELSE SplitFrom(cmd, i + 1, out, cur, inSingle, inDouble)
         ELSE SplitFrom(cmd, i + 1, out, Append(cur, ch), inSingle, inDouble)

splitArgs(cmd) == SplitFrom(cmd, 1, <<>>, <<>>, FALSE, FALSE)

----------------------------------------------------------------------------
(* validateGitPush *)

git == <<"g", "i", "t">>
push == <<"p", "u", "s", "h">>
origin == <<"o", "r", "i", "g", "i", "n">>
HEADColon == <<"H", "E", "A", "D", ":">>
FlagAll == <<"-", "-", "a", "l", "l">>
FlagMirror == <<"-", "-", "m", "i", "r", "r", "o", "r">>
FlagTags == <<"-", "-", "t", "a", "g", "s">>
FlagFollowTags == <<"-", "-", "f", "o", "l", "l", "o", "w", "-", "t", "a", "g", "s">>
FlagDelete == <<"-", "-", "d", "e", "l", "e", "t", "e">>
FlagPrune == <<"-", "-", "p", "r", "u", "n", "e">>
FlagForce == <<"-", "-", "f", "o", "r", "c", "e">>
FlagForceWithLease ==
    <<"-", "-", "f", "o", "r", "c", "e", "-", "w", "i", "t", "h", "-", "l", "e", "a", "s", "e">>

forbiddenFlags == {FlagAll, FlagMirror, FlagTags, FlagFollowTags, FlagDelete, FlagPrune}

\* args[i] of a JavaScript array, 1-based: undefined past the end.
ArgAt(args, i) == IF i >= 1 /\ i <= Len(args) THEN args[i] ELSE Undefined

Returned == [threw |-> FALSE, message |-> ""]
Thrown(msg) == [threw |-> TRUE, message |-> msg]

\* The while loop over the leading flags, from index i: where it stops, whether
\* --force and --force-with-lease were seen, and the forbidden flag it threw on.
RECURSIVE FlagLoop(_, _, _, _)
FlagLoop(args, i, seenForceWithLease, seenForce) ==
    IF i <= Len(args) /\ StartsWith(args[i], <<"-">>)
    THEN IF args[i] \in forbiddenFlags
         THEN [i |-> i, seenForceWithLease |-> seenForceWithLease,
               seenForce |-> seenForce, forbidden |-> TRUE]
         ELSE FlagLoop(args, i + 1,
                       seenForceWithLease \/ args[i] = FlagForceWithLease,
                       seenForce \/ args[i] = FlagForce)
    ELSE [i |-> i, seenForceWithLease |-> seenForceWithLease,
          seenForce |-> seenForce, forbidden |-> FALSE]

\* validateGitPush without the test that exactly one refspec follows the remote.
validateGitPushAnyCount(command, expectedBranch, allowForce) ==
    LET args == splitArgs(command) IN
    IF Len(args) < 3 THEN Thrown("Blocked: git push must specify a remote and refspec")
    ELSE IF args[1] # git \/ args[2] # push THEN Returned
    ELSE LET loop    == FlagLoop(args, 3, FALSE, FALSE)
             remote  == ArgAt(args, loop.i)
             refspec == ArgAt(args, loop.i + 1)
         IN  IF loop.forbidden THEN Thrown("Blocked: forbidden git push flag")
             ELSE IF loop.seenForce /\ ~allowForce
                  THEN Thrown("Blocked: --force is not allowed (use --force-with-lease)")
             ELSE IF remote # origin THEN Thrown("Blocked: git push remote must be 'origin'")
             ELSE IF refspec = expectedBranch THEN Returned
             ELSE IF refspec = HEADColon \o expectedBranch THEN Returned
             ELSE Thrown("Blocked: git push refspec must target the current PR branch")

validateGitPush(command, expectedBranch, allowForce) ==
    LET args == splitArgs(command) IN
    IF Len(args) < 3 THEN Thrown("Blocked: git push must specify a remote and refspec")
    ELSE IF args[1] # git \/ args[2] # push THEN Returned
    ELSE LET loop    == FlagLoop(args, 3, FALSE, FALSE)
             remote  == ArgAt(args, loop.i)
             refspec == ArgAt(args, loop.i + 1)
             i       == loop.i + 2
         IN  IF loop.forbidden THEN Thrown("Blocked: forbidden git push flag")
             ELSE IF loop.seenForce /\ ~allowForce
                  THEN Thrown("Blocked: --force is not allowed (use --force-with-lease)")
             ELSE IF remote # origin THEN Thrown("Blocked: git push remote must be 'origin'")
             ELSE IF i # Len(args) + 1
                  THEN Thrown("Blocked: git push must use exactly one refspec")
             ELSE IF refspec = expectedBranch THEN Returned
             ELSE IF refspec = HEADColon \o expectedBranch THEN Returned
             ELSE Thrown("Blocked: git push refspec must target the current PR branch")

----------------------------------------------------------------------------
(* The restricted bash tool: execute and runRestrictedBash's spawn *)

IsString(v) == v # Undefined /\ v # NotAString

\* process.env.NAME || "": an unset or empty variable reads as the empty string.
EnvOr(v) == IF v = Undefined THEN <<>> ELSE v

TrueText == <<"t", "r", "u", "e">>

\* String(params.command ?? "").trim()
ExecCommand(params) ==
    IF params.command = Undefined THEN <<>>
    ELSE IF params.command = NotAString THEN <<"7">>
    ELSE Trim(params.command)

\* execute's test for a push command (line 447).
ExecIsPush(command) ==
    \/ StartsWith(command, git \o <<SP>> \o push \o <<SP>>)
    \/ command = git \o <<SP>> \o push
    \/ StartsWith(command, git \o <<SP>> \o push \o <<"-">>)

\* Whether some pattern of the allowlist matches: allowlist.some(...)
AllowlistMatches(allowlist, command) ==
    \E k \in 1..Len(allowlist) : matchWildcard(allowlist[k], command)

Check(name, ok, message) == [name |-> name, ok |-> ok, message |-> message]

\* The push check of either gate once the command was taken for a push.
PushCheck(command, expectedBranch, allowForce, unsetMessage) ==
    IF expectedBranch = <<>> THEN Check("push", FALSE, unsetMessage)
    ELSE LET v == validateGitPush(command, expectedBranch, allowForce)
         IN  Check("push", ~v.threw, v.message)

\* The checks of execute in the order the code makes them.
ExecChecks(e, params) ==
    LET allowlist      == parseAllowlist(EnvOr(e.PI_BASH_ALLOWLIST))
        command        == ExecCommand(params)
        expectedBranch == EnvOr(e.PI_PR_HEAD_REF)
        allowForce     == e.PI_ALLOW_FORCE = TrueText
    IN  << Check("allowlist", Len(allowlist) # 0,
                 "Blocked: bash is enabled but PI_BASH_ALLOWLIST is empty"),
           Check("command", command # <<>>, "Blocked: empty bash command"),
           Check("operators", ~containsShellOperators(command),
                 "Blocked: shell operators are not allowed in restricted bash"),
           IF ExecIsPush(command)
           THEN PushCheck(command, expectedBranch, allowForce,
                          "Blocked: PI_PR_HEAD_REF is not set for git push validation")
           ELSE Check("push", TRUE, ""),
           Check("match", AllowlistMatches(allowlist, command),
                 "Blocked: bash command not in allowlist") >>

\* The index of the first check that fails, or 0.
RECURSIVE FirstFailed(_, _)
FirstFailed(checks, k) ==
    IF k > Len(checks) THEN 0
    ELSE IF ~checks[k].ok THEN k
    ELSE FirstFailed(checks, k + 1)

\* The names of the first n checks, each with its verdict.
Steps(checks, n) == [k \in 1..n |-> <<checks[k].name, checks[k].ok>>]

\* runRestrictedBash up to the spawn: the child it starts.
runRestrictedBash(command) == [file |-> "bash", args |-> <<"-lc", command>>]

\* execute with the allowlist match made after the spawn instead of before it.
executeSpawnsBeforeMatch(e, params) ==
    LET checks == ExecChecks(e, params)
        early  == SubSeq(checks, 1, Len(checks) - 1)
        failed == FirstFailed(early, 1)
    IN  IF failed # 0
        THEN [log |-> Steps(checks, failed), threw |-> TRUE,
              message |-> checks[failed].message, children |-> <<>>]
        ELSE [log |-> Steps(early, Len(early)) \o
                      <<<<"spawn", TRUE>>, <<"match", checks[Len(checks)].ok>>>>,
              threw |-> ~checks[Len(checks)].ok,
              message |-> IF checks[Len(checks)].ok THEN "" ELSE checks[Len(checks)].message,
              children |-> <<runRestrictedBash(ExecCommand(params))>>]

\* execute: the checks in order, a throw at the first that fails, else the spawn.
\* log is the order of what happened, children the processes spawned.
execute(e, params) ==
    LET checks == ExecChecks(e, params)
        failed == FirstFailed(checks, 1)
    IN  IF failed # 0
        THEN [log |-> Steps(checks, failed), threw |-> TRUE,
              message |-> checks[failed].message, children |-> <<>>]
        ELSE [log |-> Append(Steps(checks, Len(checks)), <<"spawn", TRUE>>),
              threw |-> FALSE, message |-> "",
              children |-> <<runRestrictedBash(ExecCommand(params))>>]

----------------------------------------------------------------------------
(* The tool_call handler: the bash branch *)

Allow == [block |-> FALSE, reason |-> ""]
Block(reason) == [block |-> TRUE, reason |-> reason]

\* typeof input.command === "string" ? input.command.trim() : ""
GateCommand(input) == IF IsString(input.command) THEN Trim(input.command) ELSE <<>>

\* The handler's test for a push command (line 487).
GateIsPush(command) == StartsWith(command, git \o <<SP>> \o push)

\* e?.message || "Blocked: invalid git push"
MessageOr(message) == IF message = "" THEN "Blocked: invalid git push" ELSE message

\* The checks of the bash branch in the order the code makes them.
GateChecks(e, input) ==
    LET command        == GateCommand(input)
        allowlist      == parseAllowlist(EnvOr(e.PI_BASH_ALLOWLIST))
        expectedBranch == EnvOr(e.PI_PR_HEAD_REF)
        allowForce     == e.PI_ALLOW_FORCE = TrueText
    IN  << Check("command", command # <<>>, "Blocked: empty bash command"),
           Check("allowlist", Len(allowlist) # 0, "Blocked: PI_BASH_ALLOWLIST is empty"),
           Check("operators", ~containsShellOperators(command),
                 "Blocked: shell operators not allowed"),
           IF GateIsPush(command)
           THEN LET c == PushCheck(command, expectedBranch, allowForce,
                                   "Blocked: PI_PR_HEAD_REF is not set")
                IN  Check("push", c.ok, MessageOr(c.message))
           ELSE Check("push", TRUE, ""),
           Check("match", AllowlistMatches(allowlist, command),
                 "Blocked: bash command not in allowlist") >>

\* The bash branch without its try/catch around validateGitPush: the violation
\* leaves the handler as an exception.
toolCallBashUncaught(e, input) ==
    LET checks == GateChecks(e, input)
        failed == FirstFailed(checks, 1)
        pushed == validateGitPush(GateCommand(input), EnvOr(e.PI_PR_HEAD_REF),
                                  e.PI_ALLOW_FORCE = TrueText)
    IN  IF failed = 0 THEN Allow
        ELSE IF checks[failed].name = "push" /\ EnvOr(e.PI_PR_HEAD_REF) # <<>>
             THEN Thrown(pushed.message)
        ELSE Block(checks[failed].message)

toolCallBash(e, input) ==
    LET checks == GateChecks(e, input)
        failed == FirstFailed(checks, 1)
    IN  IF failed # 0 THEN Block(checks[failed].message) ELSE Allow

----------------------------------------------------------------------------
(* Paths: node:path (POSIX) and node:fs over a file system with links *)

\* The pieces of a path string between slashes, empty pieces kept.
RECURSIVE SplitSlash(_, _)
SplitSlash(p, cur) ==
    IF p = <<>> THEN <<cur>>
    ELSE IF p[1] = "/" THEN <<cur>> \o SplitSlash(Tail(p), <<>>)
    ELSE SplitSlash(Tail(p), Append(cur, p[1]))

DotDot == <<".", ".">>
Dot == <<".">>

pathIsAbsolute(p) == StartsWith(p, <<"/">>)

\* Lexical normalisation of components onto a base: "" and "." are dropped and
\* ".." removes the component before it (the root has none to remove).
RECURSIVE Normalize(_, _)
Normalize(base, comps) ==
    IF comps = <<>> THEN base
    ELSE LET c == Head(comps) IN
         IF c = <<>> \/ c = Dot THEN Normalize(base, Tail(comps))
         ELSE IF c = DotDot
              THEN Normalize(IF base = <<>> THEN base ELSE SubSeq(base, 1, Len(base) - 1),
                             Tail(comps))
         ELSE Normalize(Append(base, c), Tail(comps))

\* An absolute, normalised path is kept as the sequence of its components.
\* path.resolve(p) for an absolute p, path.resolve(cwd, p) otherwise.
pathResolve(cwd, p) ==
    IF pathIsAbsolute(p) THEN Normalize(<<>>, SplitSlash(p, <<>>))
    ELSE Normalize(cwd, SplitSlash(p, <<>>))

RECURSIVE CommonPrefix(_, _)
CommonPrefix(a, b) ==
    IF a # <<>> /\ b # <<>> /\ Head(a) = Head(b) THEN 1 + CommonPrefix(Tail(a), Tail(b))
    ELSE 0

\* path.relative(from, to) as a string: one ".." for each component of from
\* past the common prefix, then the rest of to.
pathRelative(from, to) ==
    LET n   == CommonPrefix(from, to)
        ups == [k \in 1..(Len(from) - n) |-> DotDot]
    IN  Join(ups \o SubSeq(to, n + 1, Len(to)), <<"/">>)

isWithin(root, target) ==
    LET rel == pathRelative(root, target)
    IN  rel = <<>> \/ (~StartsWith(rel, DotDot) /\ ~pathIsAbsolute(rel))

\* A file system: the directories and files that exist, by canonical path, and
\* the symbolic links, each a canonical path with the absolute path it points to.
IsLink(fs, path) == \E l \in fs.links : l.at = path
LinkTarget(fs, path) == (CHOOSE l \in fs.links : l.at = path).to
IsNode(fs, path) == path \in fs.dirs \/ path \in fs.files

\* How many links one lookup follows before the system gives up (ELOOP).
MaxLinkDepth == 4

\* The lookup of an absolute path as the system does it: each component in
\* turn, a link replaced by the lookup of its target. where is the canonical
\* path reached; found says that every component exists. For a path whose
\* components run out of what exists, where is the place the rest would be
\* created at: the last existing place and the remaining names.
RECURSIVE Lookup(_, _, _, _)
Lookup(fs, cur, comps, depth) ==
    IF comps = <<>> THEN [found |-> TRUE, where |-> cur]
    ELSE LET next == Append(cur, Head(comps)) IN
         IF IsLink(fs, next)
         THEN IF depth = 0 THEN [found |-> FALSE, where |-> next \o Tail(comps)]
              ELSE LET t == Lookup(fs, <<>>, LinkTarget(fs, next), depth - 1)
                   IN  IF t.found THEN Lookup(fs, t.where, Tail(comps), depth)
                       ELSE [found |-> FALSE, where |-> t.where \o Tail(comps)]
         ELSE IF next \in fs.dirs THEN Lookup(fs, next, Tail(comps), depth)
         ELSE IF next \in fs.files /\ Tail(comps) = <<>> THEN [found |-> TRUE, where |-> next]
         ELSE [found |-> FALSE, where |-> next \o Tail(comps)]

existsSync(fs, abs) == Lookup(fs, <<>>, abs, MaxLinkDepth).found

realpathSync(fs, abs) == Lookup(fs, <<>>, abs, MaxLinkDepth).where

resolveAndRealpath(fs, cwd, p) ==
    LET abs == pathResolve(cwd, p)
    IN  IF existsSync(fs, abs) THEN realpathSync(fs, abs) ELSE abs

----------------------------------------------------------------------------
(* The tool_call handler *)

FsTools == {"read", "grep", "find", "ls", "edit", "write"}

DotGit == <<".", "g", "i", "t">>

IsGitPath(p) ==
    \/ p = DotGit
    \/ StartsWith(p, DotGit \o <<"/">>)
    \/ Includes(p, <<"/">> \o DotGit \o <<"/">>)
    \/ EndsWith(p, <<"/">> \o DotGit)

\* path.resolve(process.env.PI_REVIEW_ROOT ?? ctx.cwd)
AllowedRoot(e, fs) ==
    IF e.PI_REVIEW_ROOT = Undefined THEN fs.cwd ELSE pathResolve(fs.cwd, e.PI_REVIEW_ROOT)

toolCallPath(e, fs, p) ==
    IF p = Undefined THEN Allow
    ELSE IF ~IsString(p) THEN Block("Blocked: invalid path")
    ELSE IF Includes(p, <<"~">>) THEN Block("Blocked: ~ paths not allowed in CI")
    ELSE IF IsGitPath(p) THEN Block("Blocked: .git access not allowed in CI")
    ELSE IF ~isWithin(AllowedRoot(e, fs), resolveAndRealpath(fs, fs.cwd, p))
         THEN Block("Blocked: path outside allowed root")
    ELSE Allow

\* pi.on("tool_call", ...): the decision for one event.
toolCall(e, fs, ev) ==
    IF ev.toolName = "bash" THEN toolCallBash(e, ev.input)
    ELSE IF ev.toolName \in FsTools THEN toolCallPath(e, fs, ev.input.path)
    ELSE Allow

----------------------------------------------------------------------------
(* positionForNewLine: the walk over one file's patch *)

\* patch.split("\n"): the pieces between newlines, empty pieces kept.
RECURSIVE SplitNewline(_, _)
SplitNewline(patch, cur) ==
    IF patch = <<>> THEN <<cur>>
    ELSE IF patch[1] = NL THEN <<cur>> \o SplitNewline(Tail(patch), <<>>)
    ELSE SplitNewline(Tail(patch), Append(cur, patch[1]))

\* raw.replace(/\r$/, "")
StripCR(raw) ==
    IF raw # <<>> /\ raw[Len(raw)] = CR THEN SubSeq(raw, 1, Len(raw) - 1) ELSE raw

DigitChars == <<"0", "1", "2", "3", "4", "5", "6", "7", "8", "9">>

IsDigit(ch) == \E d \in 1..Len(DigitChars) : DigitChars[d] = ch

DigitValue(ch) == (CHOOSE d \in 1..Len(DigitChars) : DigitChars[d] = ch) - 1

\* The digits that [0-9]+ takes from index i on.
RECURSIVE DigitRun(_, _)
DigitRun(line, i) ==
    IF i <= Len(line) /\ IsDigit(line[i]) THEN <<line[i]>> \o DigitRun(line, i + 1) ELSE <<>>

\* Number(m[1]) of a run of decimal digits.
RECURSIVE NumberOf(_)
NumberOf(digits) ==
    IF digits = <<>> THEN 0
    ELSE 10 * NumberOf(SubSeq(digits, 1, Len(digits) - 1)) + DigitValue(digits[Len(digits)])

\* /\+([0-9]+)(?:,([0-9]+))?/.exec(line): the leftmost + that a digit follows;
\* matched says there is one and start is Number(m[1]).
RECURSIVE HunkStartFrom(_, _)
HunkStartFrom(line, i) ==
    IF i >= Len(line) THEN [matched |-> FALSE, start |-> 0]
    ELSE IF line[i] = "+" /\ IsDigit(line[i + 1])
         THEN [matched |-> TRUE, start |-> NumberOf(DigitRun(line, i + 1))]
    ELSE HunkStartFrom(line, i + 1)

HunkMarker == <<"@", "@">>
NewFileMarker == <<"+", "+", "+", SP>>
OldFileMarker == <<"-", "-", "-", SP>>

NotFound == [found |-> FALSE, position |-> 0]
FoundAt(position) == [found |-> TRUE, position |-> position]

\* The loop without the file-header test placed after position++: a file-header
\* line is skipped before it is counted.
RECURSIVE WalkSkippingHeaders(_, _, _, _, _)
WalkSkippingHeaders(lines, k, position, newLine, targetLine) ==
    IF k > Len(lines) THEN NotFound
    ELSE LET line == StripCR(lines[k]) IN
         IF StartsWith(line, NewFileMarker) \/ StartsWith(line, OldFileMarker)
         THEN WalkSkippingHeaders(lines, k + 1, position, newLine, targetLine)
         ELSE LET pos == position + 1 IN
              IF StartsWith(line, HunkMarker)
              THEN LET m == HunkStartFrom(line, 1)
                   IN  WalkSkippingHeaders(lines, k + 1, pos,
                                           IF m.matched THEN m.start - 1 ELSE newLine, targetLine)
              ELSE IF StartsWith(line, <<"+">>)
                   THEN IF newLine + 1 = targetLine THEN FoundAt(pos)
                        ELSE WalkSkippingHeaders(lines, k + 1, pos, newLine + 1, targetLine)
              ELSE IF StartsWith(line, <<"-">>) \/ line = <<>>
                   THEN WalkSkippingHeaders(lines, k + 1, pos, newLine, targetLine)
              ELSE IF newLine + 1 = targetLine THEN FoundAt(pos)
              ELSE WalkSkippingHeaders(lines, k + 1, pos, newLine + 1, targetLine)

\* for (const raw of lines) { ... }: the loop from the k-th line on, with the
\* counters as they stand before it.
RECURSIVE Walk(_, _, _, _, _)
Walk(lines, k, position, newLine, targetLine) ==
    IF k > Len(lines) THEN NotFound
    ELSE LET line == StripCR(lines[k])
             pos  == position + 1
         IN  IF StartsWith(line, HunkMarker)
             THEN LET m == HunkStartFrom(line, 1)
                  IN  Walk(lines, k + 1, pos, IF m.matched THEN m.start - 1 ELSE newLine,
                           targetLine)
             ELSE IF StartsWith(line, NewFileMarker) \/ StartsWith(line, OldFileMarker)
                  THEN Walk(lines, k + 1, pos, newLine, targetLine)
             ELSE IF StartsWith(line, <<"+">>)
                  THEN IF newLine + 1 = targetLine THEN FoundAt(pos)
                       ELSE Walk(lines, k + 1, pos, newLine + 1, targetLine)
             ELSE IF StartsWith(line, <<"-">>) \/ line = <<>>
                  THEN Walk(lines, k + 1, pos, newLine, targetLine)
             ELSE IF newLine + 1 = targetLine THEN FoundAt(pos)
             ELSE Walk(lines, k + 1, pos, newLine + 1, targetLine)

\* The counters of the loop, and whether the function has returned a position.
Counters(position, newLine, returned) ==
    [position |-> position, newLine |-> newLine, returned |-> returned]

\* One iteration of the loop, on the line raw: the counters after it.
WalkStep(raw, position, newLine, targetLine) ==
    LET line == StripCR(raw)
        pos  == position + 1
    IN  IF StartsWith(line, HunkMarker)
        THEN LET m == HunkStartFrom(line, 1)
             IN  Counters(pos, IF m.matched THEN m.start - 1 ELSE newLine, FALSE)
        ELSE IF StartsWith(line, NewFileMarker) \/ StartsWith(line, OldFileMarker)
             THEN Counters(pos, newLine, FALSE)
        ELSE IF StartsWith(line, <<"+">>)
             THEN Counters(pos, newLine + 1, newLine + 1 = targetLine)
        ELSE IF StartsWith(line, <<"-">>) \/ line = <<>>
             THEN Counters(pos, newLine, FALSE)
        ELSE Counters(pos, newLine + 1, newLine + 1 = targetLine)

\* positionForNewLine(patch, targetLine); null is NotFound.
positionForNewLine(patch, targetLine) ==
    IF patch = Undefined \/ patch = <<>> THEN NotFound
    ELSE Walk(SplitNewline(patch, <<>>), 1, 0, 0, targetLine)

----------------------------------------------------------------------------
(* Posting a review: the inline comments and their positions *)

\* The line field of a comment: its typeof ("number" or "string"), whether it
\* is, or reads as, a finite number (NaN is not), and that number.
LineValue(type, finite, value) == [type |-> type, finite |-> finite, value |-> value]

\* Number(c?.line)
ToNumber(v) == [v EXCEPT !.type = "number"]

\* String(v ?? ""): the text of the number a NotAString stands for is "5".
ToStr(v) == IF v = Undefined THEN <<>> ELSE IF v = NotAString THEN <<"5">> ELSE v

\* patchByPath.get(p) after the loop of set calls: the patch of the last file
\* listed under the name, undefined for a name not listed.
patchByPath(prFiles, p) ==
    LET at == {k \in 1..Len(prFiles) : prFiles[k].filename = p}
    IN  IF at = {} THEN Undefined
        ELSE prFiles[CHOOSE k \in at : \A j \in at : j <= k].patch

\* commentsIn.slice(0, n)
Slice(commentsIn, n) == SubSeq(commentsIn, 1, IF n < Len(commentsIn) THEN n ELSE Len(commentsIn))

\* main's loop with a break where it has continue after a failed lookup.
RECURSIVE mainCommentsStoppingAtMiss(_, _)
mainCommentsStoppingAtMiss(commentsIn, prFiles) ==
    IF commentsIn = <<>> THEN <<>>
    ELSE LET c    == Head(commentsIn)
             rest == mainCommentsStoppingAtMiss(Tail(commentsIn), prFiles)
         IN  IF ~IsString(c.path) \/ ~IsString(c.body) THEN rest
             ELSE IF c.line.type # "number" \/ ~c.line.finite \/ c.line.value <= 0 THEN rest
             ELSE LET pos == positionForNewLine(patchByPath(prFiles, c.path), c.line.value)
                  IN  IF ~pos.found THEN <<>>
                      ELSE <<[path |-> c.path, position |-> pos.position, body |-> c.body]>> \o rest

\* main: for (const c of commentsIn.slice(0, maxComments)) { ... }
RECURSIVE mainComments(_, _)
mainComments(commentsIn, prFiles) ==
    IF commentsIn = <<>> THEN <<>>
    ELSE LET c    == Head(commentsIn)
             rest == mainComments(Tail(commentsIn), prFiles)
         IN  IF ~IsString(c.path) \/ ~IsString(c.body) THEN rest
             ELSE IF c.line.type # "number" \/ ~c.line.finite \/ c.line.value <= 0 THEN rest
             ELSE LET pos == positionForNewLine(patchByPath(prFiles, c.path), c.line.value)
                  IN  IF ~pos.found THEN rest
                      ELSE <<[path |-> c.path, position |-> pos.position, body |-> c.body]>> \o rest

\* What a run leaves: whether it threw, and the review requests it sent to
\* GitHub (comments left out of a request is the empty list).
Posted(summary, comments) ==
    [threw |-> FALSE, posts |-> << [body |-> summary, comments |-> comments] >>]

\* main, review mode: from the parsed model output to the review request.
mainReview(review, prFiles, maxComments) ==
    LET summary    == IF IsString(review.summary) THEN review.summary ELSE <<"(no summary)">>
        commentsIn == IF review.isArray THEN review.comments ELSE <<>>
    IN  Posted(summary, mainComments(Slice(commentsIn, maxComments), prFiles))

\* github_create_pr_review: for (const c of commentsIn.slice(0, 50)) { ... }
RECURSIVE toolComments(_, _)
toolComments(commentsIn, prFiles) ==
    IF commentsIn = <<>> THEN <<>>
    ELSE LET c    == Head(commentsIn)
             rest == toolComments(Tail(commentsIn), prFiles)
             p    == ToStr(c.path)
             body == ToStr(c.body)
             line == ToNumber(c.line)
         IN  IF p = <<>> \/ body = <<>> THEN rest
             ELSE IF ~line.finite \/ line.value <= 0 THEN rest
             ELSE LET pos == positionForNewLine(patchByPath(prFiles, p), line.value)
                  IN  IF ~pos.found THEN rest
                      ELSE <<[path |-> p, position |-> pos.position, body |-> body]>> \o rest

ToolMaxComments == 50

\* github_create_pr_review's execute, with its environment variables set.
createPrReview(params, prFiles) ==
    LET summary    == Trim(ToStr(params.summary))
        commentsIn == IF params.isArray THEN params.comments ELSE <<>>
    IN  IF summary = <<>> THEN [threw |-> TRUE, posts |-> <<>>]
        ELSE Posted(summary, toolComments(Slice(commentsIn, ToolMaxComments), prFiles))

----------------------------------------------------------------------------
(* The inputs the model draws from *)

\* How many characters follow "git diff " in the commands built from quoting
\* and substitution characters.
MaxTail == 3

SeqsUpTo(S, n) == UNION {[1..k -> S] : k \in 0..n}

Text(words) == Join(words, <<SP>>)

feat == <<"f", "e", "a", "t">>
main == <<"m", "a", "i", "n">>
evil == <<"e", "v", "i", "l">>
status == <<"s", "t", "a", "t", "u", "s">>
diff == <<"d", "i", "f", "f">>
FlagShortForce == <<"-", "f">>

\* PI_BASH_ALLOWLIST: unset, blank, a comment only, and lists of patterns.
AllowlistTexts ==
    { Undefined,
      <<SP, SP>>,
      <<"#", SP>> \o git \o <<SP, "*", NL, SP, "#", "x">>,
      git \o <<SP, "*">>,
      Text(<<git, status>>) \o <<",", SP>> \o Text(<<git, diff, <<"*">>>>) \o <<NL>>,
      Text(<<git, push, <<"*">>>>) \o <<CR, NL, "*">> }

Envs ==
    [ PI_BASH_ALLOWLIST : AllowlistTexts,
      PI_PR_HEAD_REF    : {Undefined, feat},
      PI_ALLOW_FORCE    : {Undefined, TrueText},
      PI_REVIEW_ROOT    : {Undefined} ]

\* The ways to write the two words git push that bash reads as git push, and
\* two commands that are not a push.
PushSpellings ==
    { git \o <<SP>> \o push,
      git \o <<SP, SP>> \o push,
      git \o <<TAB>> \o push,
      git \o <<SP, DQ>> \o push \o <<DQ>>,
      git \o <<SP, SQ>> \o push \o <<SQ>>,
      git \o <<SP, BS>> \o push,
      <<DQ>> \o git \o <<DQ, SP>> \o push,
      git \o <<SP>> \o push \o <<"x">>,
      git \o <<SP>> \o push \o <<"-", "x">> }

SessionFlags == {<<>>, <<FlagForce>>, <<FlagShortForce>>, <<FlagAll>>, <<FlagForceWithLease>>}

PushCommands ==
    { Text(<<verb>> \o flags \o <<remote, refspec>>) :
        verb \in PushSpellings, flags \in SessionFlags,
        remote \in {origin, evil}, refspec \in {feat, HEADColon \o feat, main} }
    \cup { Text(<<verb>>) : verb \in PushSpellings }
    \cup { Text(<<verb, origin>>) : verb \in PushSpellings }

QuoteChars == {DQ, SQ, "$", "(", BQ, BS}

QuotedCommands == { Text(<<git, diff>>) \o <<SP>> \o t : t \in SeqsUpTo(QuoteChars, MaxTail) }

OtherCommands ==
    { <<>>, <<SP, TAB>>,
      <<SP>> \o Text(<<git, status>>) \o <<NL>>,
      Text(<<git, status>>) \o <<";">> \o Text(<<git, push, origin, main>>),
      Text(<<git, status>>) \o <<NL>> \o Text(<<git, push, origin, main>>),
      Text(<<git, diff, main>>),
      Text(<<git, diff>>) \o <<SP, DQ, "$", "(", "i", "d", ")", DQ>>,
      Text(<<git, diff>>) \o <<SP, DQ, BQ, "i", "d", BQ, DQ>>,
      Text(<<git, diff>>) \o <<SP, SQ, "$", "(", "i", "d", ")", SQ>> }

\* Push commands whose words bash does not read as they are written: an empty
\* quoted argument, a backslash inside double quotes, and a parameter
\* expansion inside a flag.
ExpansionCommands ==
    { Text(<<git, push, <<DQ, DQ>>, origin, feat>>),
      Text(<<git, push, origin, <<DQ, "f", "e", "a", BS, "t", DQ>>>>),
      Text(<<git, push, <<"-", "q", "$", "{", "I", "F", "S", "}">> \o FlagDelete, origin, feat>>) }

BashInputs ==
    { [command |-> c, path |-> Undefined] :
        c \in PushCommands \cup QuotedCommands \cup OtherCommands \cup ExpansionCommands
              \cup {Undefined, NotAString} }

BashEvents == [toolName : {"bash"}, input : BashInputs]

----------------------------------------------------------------------------
(* The file systems and the paths the model draws from *)

\* How many components a path argument has at most.
MaxPathComps == 3

\* /w is the PR worktree with a directory a, a file a/s and the git directory
\* .git holding a file s; /o lies outside with a file s. Nothing is named n.
Dirs == { <<>>, <<<<"w">>>>, <<<<"w">>, <<"a">>>>, <<<<"w">>, DotGit>>, <<<<"o">>>> }
Files == { <<<<"w">>, <<"a">>, <<"s">>>>, <<<<"w">>, DotGit, <<"s">>>>, <<<<"o">>, <<"s">>>> }

\* The links a checked-out pull request may hold: l to the outside directory,
\* g to the git directory, d to a file outside that does not exist.
WorktreeLinks ==
    { [at |-> <<<<"w">>, <<"l">>>>, to |-> <<<<"o">>>>],
      [at |-> <<<<"w">>, <<"g">>>>, to |-> <<<<"w">>, DotGit>>],
      [at |-> <<<<"w">>, <<"d">>>>, to |-> <<<<"o">>, <<"n">>>>] }

FileSystems ==
    { [dirs |-> Dirs, files |-> Files, links |-> WorktreeLinks, cwd |-> cwd] :
        cwd \in { <<<<"w">>>>, <<<<"w">>, <<"a">>>> } }

PlainFs == [dirs |-> Dirs, files |-> Files, links |-> {}, cwd |-> <<<<"w">>>>]

\* The environment of a file tool call: PI_REVIEW_ROOT is the worktree, or is
\* unset and the worktree is the working directory.
FsEnv(root) ==
    [PI_BASH_ALLOWLIST |-> Undefined, PI_PR_HEAD_REF |-> Undefined,
     PI_ALLOW_FORCE |-> Undefined, PI_REVIEW_ROOT |-> root]

FsContexts ==
    { <<FsEnv(root), fs>> : root \in {Undefined, <<"/", "w">>}, fs \in FileSystems }
    \cup { <<FsEnv(Undefined), PlainFs>> }

PathNames ==
    { <<>>, Dot, DotDot, DotGit, <<"a">>, <<"n">>, <<"l">>, <<"g">>, <<"d">>,
      <<"o">>, <<"w">>, <<"~">>, <<".", ".", "b">> }

PathStrings == { Join(comps, <<"/">>) : comps \in SeqsUpTo(PathNames, MaxPathComps) }

FsEvents ==
    [toolName : {"write"},
     input : {[command |-> Undefined, path |-> p] : p \in PathStrings}]
    \cup
    [toolName : FsTools \cup {"github_get_pr_files"},
     input : {[command |-> Undefined, path |-> p] :
                p \in {Undefined, NotAString, <<"a", "/", "s">>, <<"l", "/", "s">>,
                       <<"l", "/", "n">>, <<"g", "/", "s">>}}]

----------------------------------------------------------------------------
(* The session: one tool call, the gate's decision and the tool's execute *)

Init ==
    /\ pure = NoCall
    /\ gate = Idle
    /\ exec = Idle
    /\ run = Idle
    /\ \/ /\ event \in BashEvents
          /\ env \in Envs
          /\ fsys = PlainFs
       \/ /\ event \in FsEvents
          /\ \E ctx \in FsContexts : env = ctx[1] /\ fsys = ctx[2]

\* The runtime raises tool_call and the handler decides.
ToolCall ==
    /\ gate = Idle
    /\ gate' = toolCall(env, fsys, event)
    /\ UNCHANGED <<env, event, exec, fsys, pure, run>>

\* The runtime calls the bash tool's execute.
Execute ==
    /\ event.toolName = "bash"
    /\ exec = Idle
    /\ exec' = execute(env, event.input)
    /\ UNCHANGED <<env, event, gate, fsys, pure, run>>

Next == ToolCall \/ Execute

Spec == Init /\ [][Next]_vars

----------------------------------------------------------------------------
(* Pure functions applied to inputs drawn from bounded sets *)

\* How long the strings given to containsShellOperators are at most.
MaxScanLen == 4

\* How long the patterns and the texts given to matchWildcard are at most.
MaxPatternLen == 3
MaxTextLen == 3

\* How many flags the push commands given to validateGitPush carry at most.
MaxFlags == 2

ScanChars == {SQ, DQ, BS, ";", "$", "(", BQ, NL, "a"}

PatternChars == {"a", "*", "."}

TextChars == {"a", "b", ".", NL}

PushFlags == forbiddenFlags \cup {FlagForce, FlagShortForce, FlagForceWithLease}

\* What follows the flags: the remote and the refspecs, well formed or not.
PushTails ==
    { <<>>, <<origin>>, <<origin, feat>>, <<origin, HEADColon \o feat>>, <<origin, main>>,
      <<evil, feat>>, <<origin, feat, main>>, <<origin, FlagAll>>,
      <<origin, feat, FlagForce>>, <<origin, <<"+">> \o feat>>,
      <<<<DQ>> \o origin \o <<DQ>>, <<SQ>> \o feat \o <<SQ>>>> }

ValidatorCommands ==
    { Text(<<git, push>> \o flags \o tail) :
        flags \in SeqsUpTo(PushFlags, MaxFlags), tail \in PushTails }
    \cup { Text(<<git, status, feat>>), Text(<<git, push \o <<"x">>, origin, feat>>) }

NoSession ==
    env = Idle /\ event = Idle /\ gate = Idle /\ exec = Idle /\ fsys = Idle /\ run = Idle

\* The single characters the scanner takes for operators besides the newline.
OperatorChars == {";", "|", ">", "<", "&", CR}

\* Every string over ScanChars, and each with another operator in place of ";".
ScanTexts ==
    { [k \in 1..Len(c) |-> IF c[k] = ";" THEN op ELSE c[k]] :
        c \in SeqsUpTo(ScanChars, MaxScanLen), op \in OperatorChars }

InitScan ==
    /\ NoSession
    /\ \E c \in ScanTexts : pure = Applied("containsShellOperators", <<c>>)

ApplyScan ==
    /\ pure.fn = "containsShellOperators"
    /\ ~pure.done
    /\ pure' = [pure EXCEPT !.done = TRUE, !.result = containsShellOperators(pure.args[1])]
    /\ UNCHANGED <<env, event, gate, exec, fsys, run>>

SpecScan == InitScan /\ [][ApplyScan]_vars

InitMatch ==
    /\ NoSession
    /\ \E pattern \in SeqsUpTo(PatternChars, MaxPatternLen) :
       \E text \in SeqsUpTo(TextChars, MaxTextLen) :
           pure = Applied("matchWildcard", <<pattern, text>>)

ApplyMatch ==
    /\ pure.fn = "matchWildcard"
    /\ ~pure.done
    /\ pure' = [pure EXCEPT !.done = TRUE,
                            !.result = matchWildcard(pure.args[1], pure.args[2])]
    /\ UNCHANGED <<env, event, gate, exec, fsys, run>>

SpecMatch == InitMatch /\ [][ApplyMatch]_vars

InitPush ==
    /\ NoSession
    /\ \E command \in ValidatorCommands :
       \E expectedBranch \in {feat, main} :
       \E allowForce \in BOOLEAN :
           pure = Applied("validateGitPush", <<command, expectedBranch, allowForce>>)

ApplyPush ==
    /\ pure.fn = "validateGitPush"
    /\ ~pure.done
    /\ pure' = [pure EXCEPT !.done = TRUE,
                            !.result = validateGitPush(pure.args[1], pure.args[2], pure.args[3])]
    /\ UNCHANGED <<env, event, gate, exec, fsys, run>>

SpecPush == InitPush /\ [][ApplyPush]_vars

----------------------------------------------------------------------------
(* parseAllowlist applied to allowlist texts *)

\* How many characters an allowlist text has at most.
MaxAllowlistLen == 4

AllowlistChars == {"a", "*", "#", ",", NL, SP}

InitParse ==
    /\ NoSession
    /\ \E raw \in SeqsUpTo(AllowlistChars, MaxAllowlistLen) \cup {<<"a", CR, NL, "*", "a">>} :
          pure = Applied("parseAllowlist", <<raw>>)

ApplyParse ==
    /\ pure.fn = "parseAllowlist"
    /\ ~pure.done
    /\ pure' = [pure EXCEPT !.done = TRUE, !.result = parseAllowlist(pure.args[1])]
    /\ UNCHANGED <<env, event, gate, exec, fsys, run>>

SpecParse == InitParse /\ [][ApplyParse]_vars

(* positionForNewLine applied to patches rendered from hunks *)

\* How many lines the body of a patch's first hunk has at most.
MaxBody == 2

\* A patch line as the diff tool writes it: the tag and the line's content. An
\* added or removed line may hold any text, also text that begins like a marker.
\* A blank context line is written as a space, or as an empty line by a tool
\* that suppresses the space (tag "blank").
PatchLines ==
    [tag : {"+"}, content : {<<"a">>, <<>>, <<"+", "+", SP, "b">>}]
    \cup [tag : {"-"}, content : {<<"a">>, <<"-", "-", SP, "b">>}]
    \cup [tag : {SP}, content : {<<"a">>, <<>>}]
    \cup [tag : {"blank"}, content : {<<>>}]

Added(c) == [tag |-> "+", content |-> c]
Removed(c) == [tag |-> "-", content |-> c]
Context(c) == [tag |-> SP, content |-> c]

\* How many lines of the new file, and of the old file, a body covers.
NewCount(body) == Cardinality({k \in 1..Len(body) : body[k].tag # "-"})
OldCount(body) == Cardinality({k \in 1..Len(body) : body[k].tag # "+"})

FirstBodies == SeqsUpTo(PatchLines, MaxBody) \ {<<>>}

SecondBodies ==
    { <<Added(<<"a">>)>>,
      <<Context(<<"a">>), Added(<<>>)>>,
      <<Removed(<<"a">>), Added(<<"a">>), Context(<<>>)>> }

Hunk(start, body) == [start |-> start, body |-> body]

\* Well-formed patches of one file: one hunk, or two with the second starting
\* past the end of the first; with or without the two file-header lines.
Patches ==
    [ fileHeader : BOOLEAN,
      hunks : { <<Hunk(start, body)>> : start \in {1, 9}, body \in FirstBodies }
              \cup { <<Hunk(start, body), Hunk(start + NewCount(body) + 3, second)>> :
                       start \in {1, 9}, body \in FirstBodies, second \in SecondBodies } ]

RECURSIVE ToDigits(_)
ToDigits(n) ==
    IF n < 10 THEN <<DigitChars[n + 1]>>
    ELSE ToDigits(n \div 10) \o <<DigitChars[(n % 10) + 1]>>

\* @@ -a,b +c,d @@
RenderHeader(hunk) ==
    HunkMarker \o <<SP, "-">> \o ToDigits(hunk.start) \o <<",">> \o ToDigits(OldCount(hunk.body))
    \o <<SP, "+">> \o ToDigits(hunk.start) \o <<",">> \o ToDigits(NewCount(hunk.body))
    \o <<SP>> \o HunkMarker

RenderLine(line) == IF line.tag = "blank" THEN <<>> ELSE <<line.tag>> \o line.content

RenderHunk(hunk) ==
    <<RenderHeader(hunk)>> \o [k \in 1..Len(hunk.body) |-> RenderLine(hunk.body[k])]

RECURSIVE RenderHunks(_)
RenderHunks(hunks) ==
    IF hunks = <<>> THEN <<>> ELSE RenderHunk(Head(hunks)) \o RenderHunks(Tail(hunks))

FileHeaderLines == << OldFileMarker \o <<"a", "/", "f">>, NewFileMarker \o <<"b", "/", "f">> >>

\* The lines of the patch text, and the text.
RenderedLines(patch) ==
    (IF patch.fileHeader THEN FileHeaderLines ELSE <<>>) \o RenderHunks(patch.hunks)

Render(patch) == Join(RenderedLines(patch), <<NL>>)

\* The new-file line numbers a patch reaches, and one past them.
LastNewLine(patch) ==
    LET last == patch.hunks[Len(patch.hunks)] IN last.start + NewCount(last.body)

\* The call: the patch text, the target line, and the hunks the text was
\* rendered from.
InitPos ==
    /\ NoSession
    /\ \/ \E patch \in Patches : \E targetLine \in 1..LastNewLine(patch) :
              pure = Applied("positionForNewLine", <<Render(patch), targetLine, patch>>)
       \/ \E text \in {Undefined, <<>>} :
              pure = Applied("positionForNewLine", <<text, 1, [fileHeader |-> FALSE, hunks |-> <<>>]>>)

ApplyPos ==
    /\ pure.fn = "positionForNewLine"
    /\ ~pure.done
    /\ pure' = [pure EXCEPT !.done = TRUE,
                            !.result = positionForNewLine(pure.args[1], pure.args[2])]
    /\ UNCHANGED <<env, event, gate, exec, fsys, run>>

SpecPos == InitPos /\ [][ApplyPos]_vars

\* The walk of positionForNewLine line by line. The result holds the number of
\* lines processed (k), the counters, and the counters before the last line.
WalkPatches == {patch \in Patches : patch.fileHeader /\ patch.hunks[1].start = 1}

InitWalk ==
    /\ NoSession
    /\ \E patch \in WalkPatches : \E targetLine \in 1..LastNewLine(patch) :
          pure = [ fn |-> "walk",
                   args |-> <<SplitNewline(Render(patch), <<>>), targetLine, patch>>,
                   done |-> FALSE,
                   result |-> [k |-> 0, counters |-> Counters(0, 0, FALSE),
                              before |-> Counters(0, 0, FALSE)] ]

\* The loop takes the next line, or ends: at a return, or after the last line.
StepWalk ==
    /\ pure.fn = "walk"
    /\ ~pure.done
    /\ LET w == pure.result IN
       IF w.counters.returned \/ w.k = Len(pure.args[1])
       THEN pure' = [pure EXCEPT !.done = TRUE]
       ELSE pure' = [pure EXCEPT !.result =
                        [k |-> w.k + 1,
                         counters |-> WalkStep(pure.args[1][w.k + 1], w.counters.position,
                                               w.counters.newLine, pure.args[2]),
                         before |-> w.counters]]
    /\ UNCHANGED <<env, event, gate, exec, fsys, run>>

SpecWalk == InitWalk /\ [][StepWalk]_vars

(* Reviews: the model's comments and the pull request's files *)

\* How many comments the model's output holds at most.
MaxReviewComments == 3

FileF == <<"f">>
FileG == <<"g">>

\* The files of the pull request: f with a patch that reaches lines 1 and 2 of
\* the new file, g without a patch, and in one listing a file named 5.
PatchF == Render([fileHeader |-> FALSE,
                  hunks |-> <<Hunk(1, <<Context(<<"a">>), Added(<<"a">>)>>)>>])

PrFileLists ==
    { << [filename |-> FileF, patch |-> PatchF], [filename |-> FileG, patch |-> Undefined] >>,
      << [filename |-> FileF, patch |-> PatchF], [filename |-> <<"5">>, patch |-> PatchF] >> }

Comment(p, line, body) == [path |-> p, line |-> line, body |-> body]

Num(n) == LineValue("number", TRUE, n)
NaN == LineValue("number", FALSE, 0)
NumText(n) == LineValue("string", TRUE, n)

\* The comments a model may write: well formed and found, line absent from
\* the patch, file without a patch, empty body, path that is not a string,
\* line given as text, line that is not a number.
ModelComments ==
    { Comment(FileF, Num(1), <<"b">>),
      Comment(FileF, Num(9), <<"b">>),
      Comment(FileG, Num(1), <<"b">>),
      Comment(FileF, Num(2), <<>>),
      Comment(NotAString, Num(1), <<"b">>),
      Comment(FileF, NumText(2), <<"c">>),
      Comment(FileF, NaN, Undefined) }

Reviews ==
    [summary : {<<"s">>}, isArray : {TRUE}, comments : SeqsUpTo(ModelComments, MaxReviewComments)]
    \cup [summary : {Undefined, <<SP>>}, isArray : BOOLEAN,
          comments : {<<Comment(FileF, Num(9), <<"b">>), Comment(FileF, Num(1), <<"b">>)>>}]

MaxCommentsInputs == {0, 1, 2, 20}

InitReview ==
    /\ NoSession
    /\ \E review \in Reviews : \E prFiles \in PrFileLists :
          \/ \E maxComments \in MaxCommentsInputs :
                pure = Applied("main", <<review, prFiles, maxComments>>)
          \/ pure = Applied("github_create_pr_review", <<review, prFiles, ToolMaxComments>>)

\* main maps the comments and posts the review.
RunMain ==
    /\ pure.fn = "main"
    /\ ~pure.done
    /\ pure' = [pure EXCEPT !.done = TRUE,
                            !.result = mainReview(pure.args[1], pure.args[2], pure.args[3])]
    /\ UNCHANGED <<env, event, gate, exec, fsys, run>>

\* The tool's execute maps the comments and posts the review.
RunTool ==
    /\ pure.fn = "github_create_pr_review"
    /\ ~pure.done
    /\ pure' = [pure EXCEPT !.done = TRUE,
                            !.result = createPrReview(pure.args[1], pure.args[2])]
    /\ UNCHANGED <<env, event, gate, exec, fsys, run>>

SpecReview == InitReview /\ [][RunMain \/ RunTool]_vars

----------------------------------------------------------------------------
(* runRestrictedBash: the child process, the handlers and the promise *)

SecretNames ==
    { "OPENROUTER_API_KEY", "ANTHROPIC_API_KEY", "OPENAI_API_KEY", "GEMINI_API_KEY",
      "MISTRAL_API_KEY", "XAI_API_KEY", "CEREBRAS_API_KEY", "GITHUB_TOKEN", "GH_TOKEN",
      "ACTIONS_RUNTIME_TOKEN" }

\* scrubEnv without its delete of GH_TOKEN.
scrubEnvKeepingGhToken(e) ==
    [ out |-> [n \in DOMAIN e \ (SecretNames \ {"GH_TOKEN"}) |-> e[n]], env |-> e ]

\* scrubEnv(env): out is the object returned, the copy less the deleted names;
\* env is the argument as the call leaves it.
scrubEnv(e) == [ out |-> [n \in DOMAIN e \ SecretNames |-> e[n]], env |-> e ]

MAX_BYTES == 50 * 1024

\* A value no exit code equals: the code of a child a signal ended (null).
Null == -1000

\* The promise before it is settled, and the two ways it settles. The first
\* resolve or reject settles it; a later one changes nothing.
Pending ==
    [kind |-> "pending", exitCode |-> 0, output |-> <<>>, truncated |-> FALSE,
     message |-> <<"", 0>>]
Resolved(exitCode, output, truncated) ==
    [kind |-> "resolved", exitCode |-> exitCode, output |-> output, truncated |-> truncated,
     message |-> <<"", 0>>]
Rejected(message) ==
    [kind |-> "rejected", exitCode |-> 0, output |-> <<>>, truncated |-> FALSE,
     message |-> message]

Settle(r, outcome) ==
    [r EXCEPT !.outcome = IF r.outcome = Pending THEN outcome ELSE r.outcome]

\* new Error(`Blocked: bash timeout after ${timeoutSeconds}s`)
TimeoutError(timeoutSeconds) == <<"Blocked: bash timeout after", timeoutSeconds.seconds>>

\* The error of a spawn that failed.
SpawnError == <<"spawn bash ENOENT", 0>>

\* The first of the call's events, once one has occurred: "exit", "timer",
\* "abort" or "error", or "aborted at spawn" for a signal aborted beforehand.
Note(r, what) == [r EXCEPT !.first = IF r.first = "none" THEN what ELSE r.first]

\* child.kill("SIGKILL"): a running child is signalled; on any other it does nothing.
Kill(r) ==
    [r EXCEPT !.kills = r.kills + 1,
              !.child.killed = r.child.killed \/ r.child.state = "running"]

\* if (timeoutHandle) clearTimeout(timeoutHandle)
ClearTimer(r) == [r EXCEPT !.timer = IF r.timer = "armed" THEN "cleared" ELSE r.timer]

RECURSIVE SumLen(_)
SumLen(chunks) == IF chunks = <<>> THEN 0 ELSE Head(chunks).len + SumLen(Tail(chunks))

\* while (chunks.length > 0 && Buffer.concat(chunks).length > MAX_BYTES) chunks.shift()
RECURSIVE KeepTail(_)
KeepTail(chunks) ==
    IF chunks # <<>> /\ SumLen(chunks) > MAX_BYTES THEN KeepTail(Tail(chunks)) ELSE chunks

\* onData with an if in place of its while: one chunk dropped at most.
onDataDropsOne(r, b) ==
    LET pushed == Append(r.chunks, b)
        kept   == IF SumLen(pushed) > MAX_BYTES THEN Tail(pushed) ELSE pushed
    IN  [r EXCEPT !.total = r.total + b.len,
                  !.chunks = kept,
                  !.truncated = r.truncated \/ kept # pushed]

\* onData(b)
onData(r, b) ==
    LET pushed == Append(r.chunks, b)
        kept   == KeepTail(pushed)
    IN  [r EXCEPT !.total = r.total + b.len,
                  !.chunks = kept,
                  !.truncated = r.truncated \/ kept # pushed]

\* The timer's callback without its timedOut = true.
onTimeoutOnlyKills(r) == Kill([r EXCEPT !.timer = "fired"])

\* The timer's callback without its kill.
onTimeoutOnlyFlags(r) == [r EXCEPT !.timer = "fired", !.timedOut = TRUE]

\* The setTimeout callback.
onTimeout(r) == Kill([r EXCEPT !.timer = "fired", !.timedOut = TRUE])

\* onAbort
onAbort(r) == Kill(r)

\* child.on("error", ...)
onError(r) ==
    Settle([ClearTimer(r) EXCEPT !.listening = FALSE], Rejected(SpawnError))

\* Buffer.concat(chunks).toString("utf-8").trimEnd(): the chunks kept, less the
\* blank ones at the end (a chunk that is not blank ends with a visible byte).
RECURSIVE TrimEndChunks(_)
TrimEndChunks(chunks) ==
    IF chunks # <<>> /\ chunks[Len(chunks)].blank
    THEN TrimEndChunks(SubSeq(chunks, 1, Len(chunks) - 1))
    ELSE chunks

\* child.on("close", ...)
onClose(r, code) ==
    LET cleared == [ClearTimer(r) EXCEPT !.listening = FALSE]
    IN  IF r.timedOut THEN Settle(cleared, Rejected(TimeoutError(r.timeoutSeconds)))
        ELSE Settle(cleared, Resolved(IF code = Null THEN 1 ELSE code,
                                      TrimEndChunks(r.chunks), r.truncated))

\* The optional timeoutSeconds parameter: left out, or a number of seconds.
NoTimeout == [given |-> FALSE, seconds |-> 0]
Seconds(n) == [given |-> TRUE, seconds |-> n]

\* timeoutSeconds && timeoutSeconds > 0
ArmsTimer(timeoutSeconds) == timeoutSeconds.given /\ timeoutSeconds.seconds > 0

\* The promise's executor: the spawn, the timer and the abort listener. spawned
\* says whether bash started (the child's ran); a spawn that failed emits error.
Executor(r, e, spawned) ==
    LET begun == [r EXCEPT !.started = TRUE,
                           !.spawns = r.spawns + 1,
                           !.child = [state |-> IF spawned THEN "running" ELSE "failed",
                                      ran |-> spawned, killed |-> FALSE, code |-> Null,
                                      env |-> scrubEnv(e).out],
                           !.timer = IF ArmsTimer(r.timeoutSeconds) THEN "armed" ELSE "none"]
    IN  IF r.signal = "absent" THEN begun
        ELSE IF r.aborted THEN Note(onAbort(begun), "aborted at spawn")
        ELSE [begun EXCEPT !.listening = TRUE]

\* execute's text for a result: the output or "(no output)", the truncation
\* note and the exit code.
ResultText(result) ==
    [ body |-> IF result.output # <<>> THEN result.output ELSE <<"(no output)">>,
      note |-> IF result.truncated THEN "[output truncated]" ELSE "",
      exitCode |-> result.exitCode ]

----------------------------------------------------------------------------
(* A session's calls of runRestrictedBash and the events of each *)

\* How many chunks a child writes at most, and how many calls a session makes.
MaxChunks == 2
MaxCalls == 2

\* What a child writes in one chunk: a blank byte, text below the cap, text of
\* exactly MAX_BYTES and text one byte over.
ChunkKinds ==
    { [len |-> 1, blank |-> TRUE], [len |-> 30000, blank |-> FALSE],
      [len |-> MAX_BYTES, blank |-> FALSE], [len |-> MAX_BYTES + 1, blank |-> FALSE] }

ExitCodes == {0, 2}

\* The timeout parameter: absent, zero, negative, positive.
Timeouts == {NoTimeout, Seconds(0), Seconds(-1), Seconds(5)}

OtherNames == {"PATH", "PI_PR_HEAD_REF", "GH_TOKEN_FILE"}

ParentEnvs ==
    { [n \in SecretNames \cup OtherNames |-> <<"v">>],
      [n \in OtherNames |-> <<"v">>],
      [n \in {"GH_TOKEN", "ANTHROPIC_API_KEY", "PATH"} |-> <<"v">>] }

\* A call before its executor ran, with the timeout and the signal it was given.
NewRun(call, timeoutSeconds, signal, aborted) ==
    [ call |-> call, started |-> FALSE, timeoutSeconds |-> timeoutSeconds,
      signal |-> signal, aborted |-> aborted, listening |-> FALSE,
      timer |-> "none", timedOut |-> FALSE, truncated |-> FALSE,
      chunks |-> <<>>, total |-> 0, written |-> <<>>,
      child |-> [state |-> "none", ran |-> FALSE, killed |-> FALSE, code |-> Null,
                 env |-> <<>>],
      spawns |-> 0, kills |-> 0, errored |-> FALSE, first |-> "none",
      outcome |-> Pending ]

Signals == { <<"absent", FALSE>>, <<"present", FALSE>>, <<"present", TRUE>> }

InitRun ==
    /\ event = Idle /\ gate = Idle /\ exec = Idle /\ fsys = Idle /\ pure = NoCall
    /\ env \in ParentEnvs
    /\ \E t \in Timeouts : \E s \in Signals : run = NewRun(1, t, s[1], s[2])

\* runRestrictedBash is called: the executor runs to its end.
Start ==
    /\ ~run.started
    /\ \E spawned \in BOOLEAN : run' = Executor(run, env, spawned)
    /\ env' = scrubEnv(env).env
    /\ UNCHANGED <<event, gate, exec, fsys, pure>>

\* A spawn that failed emits error before any other event of the call.
ErrorDue == run.child.state = "failed" /\ ~run.errored

\* The child writes to stdout or stderr; what it wrote before it exited may
\* still arrive until close.
Data ==
    /\ run.started /\ ~ErrorDue
    /\ run.child.state \in {"running", "exited"}
    /\ Len(run.written) < MaxChunks
    /\ \E kind \in ChunkKinds :
          LET b == [seq |-> Len(run.written) + 1, len |-> kind.len, blank |-> kind.blank]
          IN  run' = [onData(run, b) EXCEPT !.written = Append(run.written, b)]
    /\ UNCHANGED <<env, event, gate, exec, fsys, pure>>

\* The timer fires.
TimerFires ==
    /\ run.started /\ ~ErrorDue
    /\ run.timer = "armed"
    /\ run' = Note(onTimeout(run), "timer")
    /\ UNCHANGED <<env, event, gate, exec, fsys, pure>>

\* The cancellation signal fires; the listener, if still registered, runs once.
Abort ==
    /\ run.started /\ ~ErrorDue
    /\ run.signal = "present" /\ ~run.aborted
    /\ run' = LET fired == Note([run EXCEPT !.aborted = TRUE], "abort")
              IN  IF run.listening THEN [onAbort(fired) EXCEPT !.listening = FALSE] ELSE fired
    /\ UNCHANGED <<env, event, gate, exec, fsys, pure>>

\* The child emits error: the spawn failed.
ChildError ==
    /\ run.started /\ ErrorDue
    /\ run' = Note([onError(run) EXCEPT !.errored = TRUE], "error")
    /\ UNCHANGED <<env, event, gate, exec, fsys, pure>>

\* The running child ends by itself with an exit code.
Exits ==
    /\ run.started
    /\ run.child.state = "running" /\ ~run.child.killed
    /\ \E code \in ExitCodes :
          run' = Note([run EXCEPT !.child.state = "exited", !.child.code = code], "exit")
    /\ UNCHANGED <<env, event, gate, exec, fsys, pure>>

\* The child that was sent SIGKILL ends: it has no exit code.
Dies ==
    /\ run.started
    /\ run.child.state = "running" /\ run.child.killed
    /\ run' = [run EXCEPT !.child.state = "exited", !.child.code = Null]
    /\ UNCHANGED <<env, event, gate, exec, fsys, pure>>

\* The child emits close: it has ended and its streams are closed. After a
\* spawn that failed close follows error.
Close ==
    /\ run.started
    /\ \/ run.child.state = "exited"
       \/ run.child.state = "failed" /\ run.errored
    /\ run' = [onClose(run, run.child.code) EXCEPT !.child.state = "closed"]
    /\ UNCHANGED <<env, event, gate, exec, fsys, pure>>

\* The call has settled and the session makes its next call.
NextCall ==
    /\ run.outcome # Pending
    /\ run.call < MaxCalls
    /\ \E t \in Timeouts : \E s \in Signals : run' = NewRun(run.call + 1, t, s[1], s[2])
    /\ UNCHANGED <<env, event, gate, exec, fsys, pure>>

NextRun ==
    Start \/ Data \/ TimerFires \/ Abort \/ ChildError \/ Exits \/ Dies \/ Close \/ NextCall

\* An armed timer fires, a child sent SIGKILL ends, a child that has ended emits
\* close, and a failed spawn emits error.
SpecRun ==
    /\ InitRun
    /\ [][NextRun]_vars
    /\ WF_vars(TimerFires) /\ WF_vars(Dies) /\ WF_vars(Close) /\ WF_vars(ChildError)

----------------------------------------------------------------------------
(* Claims *)

IsBashCall == event.toolName = "bash"
GateDone == gate # Idle
ExecDone == exec # Idle
GateAllowed == GateDone /\ ~gate.block
ExecSpawned == ExecDone /\ exec.children # <<>>

\* The configuration and the command as execute reads them.
TheAllowlist == parseAllowlist(EnvOr(env.PI_BASH_ALLOWLIST))
TheBranch == EnvOr(env.PI_PR_HEAD_REF)
TheForce == env.PI_ALLOW_FORCE = TrueText
TheCommand == ExecCommand(event.input)

\* Every check of execute, stated from the configuration and the command.
AllChecksPass ==
    /\ TheAllowlist # <<>>
    /\ TheCommand # <<>>
    /\ ~containsShellOperators(TheCommand)
    /\ ExecIsPush(TheCommand) =>
          TheBranch # <<>> /\ ~validateGitPush(TheCommand, TheBranch, TheForce).threw
    /\ AllowlistMatches(TheAllowlist, TheCommand)

CheckNames == {"allowlist", "command", "operators", "push", "match"}

SpawnSteps == {k \in 1..Len(exec.log) : exec.log[k][1] = "spawn"}

----------------------------------------------------------------------------
\* Whether the tokens splitArgs makes of a command begin with git, push.
TokensArePush(command) ==
    LET t == splitArgs(command) IN Len(t) >= 2 /\ t[1] = git /\ t[2] = push

Refused == (GateDone => gate.block) /\ (ExecDone => exec.threw /\ exec.children = <<>>)

\* C2: with an empty parsed allowlist every bash command is blocked by the
\* tool_call handler and by execute, and with an empty PI_PR_HEAD_REF every
\* git push command is; no process is spawned in either case.
C2_FailClosed ==
    IsBashCall =>
        /\ TheAllowlist = <<>> => Refused
        /\ (TheBranch = <<>> /\ TokensArePush(TheCommand)) => Refused

\* C5: every bash command the handler allows or execute spawns whose tokens
\* begin with git, push was validated by validateGitPush and obeys its rules,
\* however the two words are spelled.
C5_EveryPushValidated ==
    (IsBashCall /\ TokensArePush(TheCommand) /\ (GateAllowed \/ ExecSpawned)) =>
        /\ TheBranch # <<>>
        /\ ~validateGitPush(TheCommand, TheBranch, TheForce).threw

\* Bash's own reading of a command line: inside single quotes every character
\* is literal; elsewhere a backslash takes the next character, and a backtick
\* or $( that is neither starts a command substitution, inside double quotes
\* too. quote is the quote open at i, ticks and parens count the substitutions
\* open, found says one was started. The line is one bash evaluates when it
\* ends with no quote and no substitution left open.
RECURSIVE BashReadsFrom(_, _, _, _, _, _)
BashReadsFrom(command, i, quote, ticks, parens, found) ==
    IF i > Len(command)
    THEN found /\ quote = "none" /\ ticks = 0 /\ parens = 0
    ELSE LET ch == command[i] IN
         IF quote = "single"
         THEN BashReadsFrom(command, i + 1, IF ch = SQ THEN "none" ELSE quote,
                            ticks, parens, found)
         ELSE IF ch = BS THEN BashReadsFrom(command, i + 2, quote, ticks, parens, found)
         ELSE IF ch = SQ /\ quote = "none"
              THEN BashReadsFrom(command, i + 1, "single", ticks, parens, found)
         ELSE IF ch = DQ
              THEN BashReadsFrom(command, i + 1, IF quote = "double" THEN "none" ELSE "double",
                                 ticks, parens, found)
         ELSE IF ch = BQ
              THEN BashReadsFrom(command, i + 1, quote, 1 - ticks, parens, TRUE)
         ELSE IF ch = "$" /\ i < Len(command) /\ command[i + 1] = "("
              THEN BashReadsFrom(command, i + 2, quote, ticks, parens + 1, TRUE)
         ELSE IF ch = ")" /\ parens > 0
              THEN BashReadsFrom(command, i + 1, quote, ticks, parens - 1, found)
         ELSE BashReadsFrom(command, i + 1, quote, ticks, parens, found)

BashSubstitutes(command) == BashReadsFrom(command, 1, "none", 0, 0, FALSE)

\* C8: every bash command holding a command substitution bash would evaluate
\* (a backtick or $( anywhere but inside single quotes) is blocked by the
\* handler and by execute and is never spawned.
C8_SubstitutionBlocked ==
    (IsBashCall /\ BashSubstitutes(TheCommand)) => Refused

----------------------------------------------------------------------------
IsFsCall == event.toolName \in FsTools /\ IsString(event.input.path)

\* The place a path argument denotes once every symbolic link on it is
\* resolved: where the system's lookup of the absolute path ends, which for a
\* last component that does not exist yet is where it would be created.
Denoted == Lookup(fsys, <<>>, pathResolve(fsys.cwd, event.input.path), MaxLinkDepth).where

\* The allowed root, links resolved.
RootPlace == Lookup(fsys, <<>>, AllowedRoot(env, fsys), MaxLinkDepth).where

\* A place is inside a directory when the directory's components begin it.
Inside(dir, place) == Len(dir) <= Len(place) /\ SubSeq(place, 1, Len(dir)) = dir

\* C3: for every file system (links inside the root and paths whose last
\* component does not exist yet included) and every read, grep, find, ls, edit
\* or write call with a string path the handler allows, the place the path
\* denotes after link resolution lies inside the allowed root.
C3_PathConfinement ==
    (IsFsCall /\ GateAllowed) => Inside(RootPlace, Denoted)

\* C4: no file tool call the handler allows denotes a place that is, or lies
\* under, a directory named .git; and every path string that is .git, starts
\* with .git/, contains /.git/ or ends with /.git is blocked.
C4_GitUnreachable ==
    /\ (IsFsCall /\ GateAllowed) => \A k \in 1..Len(Denoted) : Denoted[k] # DotGit
    /\ (IsFsCall /\ GateDone /\ IsGitPath(event.input.path)) => gate.block

----------------------------------------------------------------------------
PushApplied == pure.fn = "validateGitPush" /\ pure.done
PushTokens == splitArgs(pure.args[1])
PushBranch == pure.args[2]
PushAllowForce == pure.args[3]
PushAccepted == PushApplied /\ ~pure.result.threw
PushIsPush == Len(PushTokens) >= 2 /\ PushTokens[1] = git /\ PushTokens[2] = push

IsFlag(token) == StartsWith(token, <<"-">>)

ClaimedForbidden ==
    { FlagAll, FlagMirror, FlagTags, FlagFollowTags, FlagDelete, FlagPrune }

\* The one shape of an accepted push: git, push, n flags none of them
\* forbidden, origin, one refspec naming the expected branch.
ExactPushShape(tokens, branch) ==
    \E n \in 0..Len(tokens) :
        /\ Len(tokens) = n + 4
        /\ \A k \in 3..(n + 2) : IsFlag(tokens[k]) /\ tokens[k] \notin ClaimedForbidden
        /\ tokens[n + 3] = origin
        /\ tokens[n + 4] \in {branch, HEADColon \o branch}

\* C6: validateGitPush accepts a command whose first two tokens are git, push
\* only if its tokens are exactly git, push, flags none of which is forbidden,
\* origin, and one refspec equal to expectedBranch or HEAD:expectedBranch; a
\* forbidden flag anywhere, another remote, a missing refspec, extra tokens or
\* another refspec is a violation whatever allowForce is.
C6_AcceptedPushShape ==
    (PushApplied /\ PushIsPush) =>
        /\ ~pure.result.threw => ExactPushShape(PushTokens, PushBranch)
        /\ (\E k \in 3..Len(PushTokens) : PushTokens[k] \in ClaimedForbidden)
              => pure.result.threw

\* An accepted push with a flag before the remote and the HEAD: refspec.
C6_Witness ==
    /\ PushAccepted
    /\ PushIsPush
    /\ Len(PushTokens) = 5
    /\ PushTokens[3] = FlagForceWithLease
    /\ PushTokens[5] = HEADColon \o PushBranch

\* The flags before the remote: the tokens from the third on that begin with -.
RECURSIVE LeadingFlags(_, _)
LeadingFlags(tokens, k) ==
    IF k <= Len(tokens) /\ IsFlag(tokens[k])
    THEN {tokens[k]} \cup LeadingFlags(tokens, k + 1)
    ELSE {}

BareForce == {FlagForce, FlagShortForce}

\* C7: with allowForce false validateGitPush rejects every push whose leading
\* flags hold a bare force flag (--force or -f); with allowForce true the same
\* command with origin and the expected refspec is accepted; and
\* --force-with-lease without a bare force flag is accepted either way.
C7_ForceNeedsPermission ==
    (PushApplied /\ PushIsPush) =>
        LET flags  == LeadingFlags(PushTokens, 3)
            shaped == ExactPushShape(PushTokens, PushBranch)
        IN  /\ (~PushAllowForce /\ flags \cap BareForce # {}) => pure.result.threw
            /\ (PushAllowForce /\ flags \cap BareForce # {} /\ shaped) => ~pure.result.threw
            /\ (FlagForceWithLease \in flags /\ flags \cap BareForce = {} /\ shaped)
                  => ~pure.result.threw

----------------------------------------------------------------------------
ScanApplied == pure.fn = "containsShellOperators" /\ pure.done
ScanText == pure.args[1]

\* Position i is skipped when a backslash that was itself looked at precedes it.
RECURSIVE SkippedAt(_, _)
SkippedAt(text, i) == i > 1 /\ text[i - 1] = BS /\ ~SkippedAt(text, i - 1)

\* The quote state on reaching position i: "single", "double" or "none". A
\* quote character looked at outside the other kind of quote opens or closes.
RECURSIVE QuoteAt(_, _)
QuoteAt(text, i) ==
    IF i = 1 THEN "none"
    ELSE LET before == QuoteAt(text, i - 1)
             ch     == text[i - 1]
         IN  IF SkippedAt(text, i - 1) THEN before
             ELSE IF ch = SQ /\ before # "double"
                  THEN (IF before = "single" THEN "none" ELSE "single")
             ELSE IF ch = DQ /\ before # "single"
                  THEN (IF before = "double" THEN "none" ELSE "double")
             ELSE before

OperatorAt(text, i) ==
    \/ text[i] \in {NL, CR, ";", "|", ">", "<", BQ, "&"}
    \/ /\ i < Len(text)
       /\ <<text[i], text[i + 1]>> \in {<<"&", "&">>, <<"|", "|">>, <<"$", "(">>}

\* C9: containsShellOperators is true exactly when, reading left to right with
\* the single and double quote state and skipping the character after each
\* backslash, some position outside both quote states holds a newline, a
\* carriage return, &&, ||, $(, ;, |, >, <, a backtick or a bare &.
C9_ScannerMeaning ==
    ScanApplied =>
        pure.result =
            (\E i \in 1..Len(ScanText) :
                /\ ~SkippedAt(ScanText, i)
                /\ QuoteAt(ScanText, i) = "none"
                /\ OperatorAt(ScanText, i))

\* An operator inside a closed quoted region, and nothing else, is not flagged.
C9_Witness ==
    /\ ScanApplied
    /\ ScanText = <<"a", DQ, ";", DQ>>
    /\ pure.result = FALSE

MatchApplied == pure.fn = "matchWildcard" /\ pure.done
MatchPattern == pure.args[1]
MatchText == pure.args[2]

\* A glob read as the claim reads it: a star stands for zero or more of any
\* character, every other character for itself, and the whole text is taken.
RECURSIVE GlobMatches(_, _)
GlobMatches(pattern, text) ==
    IF pattern = <<>> THEN text = <<>>
    ELSE IF Head(pattern) = "*"
         THEN \/ GlobMatches(Tail(pattern), text)
              \/ text # <<>> /\ GlobMatches(pattern, Tail(text))
    ELSE text # <<>> /\ Head(text) = Head(pattern) /\ GlobMatches(Tail(pattern), Tail(text))

\* C10: for every pattern and text (texts with newlines included)
\* matchWildcard is true exactly when the pattern is not * and does not start
\* with * and the whole text matches the pattern read as a glob.
C10_GlobMeaning ==
    MatchApplied =>
        pure.result =
            (/\ MatchPattern # <<"*">>
             /\ ~StartsWith(MatchPattern, <<"*">>)
             /\ GlobMatches(MatchPattern, MatchText))

----------------------------------------------------------------------------
\* C17: every file tool call whose path holds no ~, matches none of the .git
\* patterns and denotes the allowed root or a place inside it is allowed,
\* whatever its components are named (names beginning with .. included).
C17_InsideIsAllowed ==
    (/\ IsFsCall
     /\ GateDone
     /\ ~Includes(event.input.path, <<"~">>)
     /\ ~IsGitPath(event.input.path)
     /\ Inside(RootPlace, Denoted)) => ~gate.block

\* C18: for every tool_call event the handler returns undefined (allow) or
\* {block: true, reason} with a reason that is not empty, and never throws: a
\* violation raised by validateGitPush becomes a block, and a tool that is not
\* bash, read, grep, find, ls, edit or write is always allowed.
C18_GateDecides ==
    GateDone =>
        /\ DOMAIN gate = {"block", "reason"}
        /\ gate = Allow \/ (gate.block = TRUE /\ gate.reason # "")
        /\ event.toolName \notin (FsTools \cup {"bash"}) => gate = Allow

\* validateGitPush raised a violation inside the handler and the call was blocked
\* with its message.
C18_Witness ==
    /\ GateDone
    /\ IsBashCall
    /\ GateIsPush(GateCommand(event.input))
    /\ TheBranch # <<>>
    /\ validateGitPush(GateCommand(event.input), TheBranch, TheForce).threw
    /\ gate = Block(validateGitPush(GateCommand(event.input), TheBranch, TheForce).message)

----------------------------------------------------------------------------
PosApplied == pure.fn = "positionForNewLine" /\ pure.done
PosText == pure.args[1]
PosTarget == pure.args[2]
PosPatch == pure.args[3]

\* What each line of a patch is, read from its hunks and not from its text: its
\* tag, and for a context or added line its number in the new file (0 for the
\* other lines).
RECURSIVE NumberedBody(_, _)
NumberedBody(body, next) ==
    IF body = <<>> THEN <<>>
    ELSE LET l == Head(body) IN
         IF l.tag = "-"
         THEN <<[tag |-> "-", newNo |-> 0]>> \o NumberedBody(Tail(body), next)
         ELSE <<[tag |-> l.tag, newNo |-> next]>> \o NumberedBody(Tail(body), next + 1)

RECURSIVE NumberedHunks(_)
NumberedHunks(hunks) ==
    IF hunks = <<>> THEN <<>>
    ELSE <<[tag |-> "@@", newNo |-> 0]>>
         \o NumberedBody(Head(hunks).body, Head(hunks).start)
         \o NumberedHunks(Tail(hunks))

Numbered(patch) ==
    (IF patch.fileHeader THEN <<[tag |-> "file", newNo |-> 0], [tag |-> "file", newNo |-> 0]>>
     ELSE <<>>) \o NumberedHunks(patch.hunks)

IsAddedLine(patch, n) ==
    \E k \in 1..Len(Numbered(patch)) : Numbered(patch)[k] = [tag |-> "+", newNo |-> n]

\* C15: for every well-formed patch (one or more hunks, any content of the
\* added lines) and every target that is an added line of the new file,
\* positionForNewLine returns a position, and the line at that position,
\* numbered from its hunk's header, is the target line.
C15_PositionRoundTrip ==
    (PosApplied /\ IsAddedLine(PosPatch, PosTarget)) =>
        /\ pure.result.found
        /\ pure.result.position \in 1..Len(Numbered(PosPatch))
        /\ Numbered(PosPatch)[pure.result.position].newNo = PosTarget

\* The lines of the patch text as the walk sees them.
PosLines ==
    LET raw == SplitNewline(PosText, <<>>) IN [k \in 1..Len(raw) |-> StripCR(raw[k])]

IsHunkHeader(line) == StartsWith(line, HunkMarker)
IsFileHeader(line) == StartsWith(line, NewFileMarker) \/ StartsWith(line, OldFileMarker)

\* The lines that stand for a line of the new file: added and context lines.
IsNewFileLine(line) ==
    /\ ~IsHunkHeader(line)
    /\ ~IsFileHeader(line)
    /\ line # <<>>
    /\ ~StartsWith(line, <<"-">>)

\* The number in the new file of the k-th patch line: the start its hunk's
\* header gives, and one more for each new-file line between the two.
NewLineOf(lines, k) ==
    LET headers == {h \in 1..k : IsHunkHeader(lines[h]) /\ HunkStartFrom(lines[h], 1).matched}
        h       == IF headers = {} THEN 0 ELSE CHOOSE x \in headers : \A y \in headers : y <= x
        base    == IF h = 0 THEN 0 ELSE HunkStartFrom(lines[h], 1).start - 1
    IN  base + Cardinality({j \in (h + 1)..k : IsNewFileLine(lines[j])})

Matches(lines, targetLine) ==
    {k \in 1..Len(lines) : IsNewFileLine(lines[k]) /\ NewLineOf(lines, k) = targetLine}

\* The matched line: the first whose number is the target.
MatchedLine(lines, targetLine) ==
    CHOOSE k \in Matches(lines, targetLine) : \A j \in Matches(lines, targetLine) : k <= j

\* C16 as stated: the position returned is the number of patch lines up to and
\* including the matched line that are not file-header lines (+++ , --- ).
C16_PositionSkipsFileHeaders ==
    (PosApplied /\ pure.result.found) =>
        pure.result.position =
            Cardinality({j \in 1..MatchedLine(PosLines, PosTarget) : ~IsFileHeader(PosLines[j])})

\* C16, amended: the position counter increments once for every patch line
\* examined, hunk headers and file-header lines included; the position
\* returned is the number of patch lines up to and including the matched line,
\* and none is returned when no line matches.
C16_PositionCountsEveryLine ==
    (PosApplied /\ IsString(PosText) /\ PosText # <<>>) =>
        /\ pure.result.found = (Matches(PosLines, PosTarget) # {})
        /\ pure.result.found => pure.result.position = MatchedLine(PosLines, PosTarget)

\* A target found in the second hunk of a patch that begins with file headers.
C16_Witness ==
    /\ PosApplied
    /\ PosPatch.fileHeader
    /\ Len(PosPatch.hunks) = 2
    /\ pure.result.found
    /\ pure.result.position > Len(PosPatch.hunks[1].body) + 4

----------------------------------------------------------------------------
RunSettled == run.outcome # Pending
RunTimedOut == run.outcome = Rejected(TimeoutError(run.timeoutSeconds))
RunCompleted == run.outcome.kind = "resolved"

\* C11: with a positive timeout, once the timer has fired before close the
\* child was sent a kill and the call ends in the timeout failure, never in a
\* result with an exit code; with the timeout absent, zero or negative no timer
\* is armed; and once close has arrived the timer is cancelled and the flag it
\* would set is not set.
C11_TimeoutOutcome ==
    run.started =>
        /\ run.timer = "fired" =>
              /\ run.timeoutSeconds.given /\ run.timeoutSeconds.seconds > 0
              /\ run.kills >= 1
              /\ run.child.state \in {"exited", "closed"} \/ run.child.killed
              /\ RunSettled => RunTimedOut
        /\ ~(run.timeoutSeconds.given /\ run.timeoutSeconds.seconds > 0) => run.timer = "none"
        /\ run.child.state = "closed" => run.timer # "armed"
        /\ run.timer = "cleared" => ~run.timedOut /\ ~RunTimedOut

\* The timer fired on a running child, the child died and the call timed out.
C11_Witness ==
    /\ run.started
    /\ run.timer = "fired"
    /\ run.child.state = "closed"
    /\ run.child.killed
    /\ run.written # <<>>
    /\ RunTimedOut

----------------------------------------------------------------------------
\* The failure an aborted call ends in.
AbortedError == <<"aborted", 0>>

\* C12: when the cancellation signal fires during the call, or is already
\* aborted when the child is spawned, the child is sent a kill and the call
\* ends in the failure "aborted", which is neither the timeout failure nor a
\* result with an exit code.
C12_AbortOutcome ==
    (/\ run.started
     /\ run.first \in {"abort", "aborted at spawn"}
     /\ run.child.ran) =>
        /\ run.kills >= 1
        /\ RunSettled =>
              /\ run.outcome = Rejected(AbortedError)
              /\ ~RunCompleted
              /\ ~RunTimedOut

----------------------------------------------------------------------------
\* The chunks the child wrote that are not blank.
Visible(chunks) == {k \in 1..Len(chunks) : ~chunks[k].blank}

\* C13: for every sequence of chunks whose sizes add up to more than the cap,
\* one chunk larger than the cap included, the completed call returns the end
\* of the output (not empty, ending with the last bytes written), truncated is
\* true, the text carries [output truncated], and exitCode is the exit code
\* the process reported.
C13_TruncatedTail ==
    (/\ run.started
     /\ RunCompleted
     /\ SumLen(run.written) > MAX_BYTES
     /\ Visible(run.written) # {}) =>
        LET result == run.outcome
            last   == CHOOSE k \in Visible(run.written) : \A j \in Visible(run.written) : j <= k
        IN  /\ result.output # <<>>
            /\ result.output[Len(result.output)] = run.written[last]
            /\ SumLen(result.output) <= MAX_BYTES
            /\ result.truncated
            /\ ResultText(result).note = "[output truncated]"
            /\ ResultText(result).body = result.output
            /\ run.child.code # Null => ResultText(result).exitCode = run.child.code

----------------------------------------------------------------------------
\* C14: the environment of every spawned child holds none of the ten secret
\* names and every other variable of the parent unchanged, and scrubEnv leaves
\* the parent's environment as it was, on every call of the session.
C14_ScrubbedEnv ==
    /\ [](run.started =>
            /\ DOMAIN run.child.env = DOMAIN env \ SecretNames
            /\ \A n \in DOMAIN run.child.env : run.child.env[n] = env[n])
    /\ [][env' = env]_vars

\* A second call of the session spawned its child with secrets in the parent's environment.
C14_Witness ==
    /\ run.started
    /\ run.call = 2
    /\ run.child.state = "running"
    /\ "GH_TOKEN" \in DOMAIN env
    /\ "PATH" \in DOMAIN run.child.env

----------------------------------------------------------------------------
\* C19: for every interleaving of the child's exit and close, the timer, the
\* cancellation signal and a spawn error, the call's outcome is that of the
\* event that occurred first: a call whose child ended by itself first is
\* completed with the child's exit code (a timer firing later does not make it
\* timed out), one whose timer fired first is timed out, one whose signal
\* fired first is aborted, one whose spawn failed is rejected with that error.
C19_FirstEventWins ==
    (run.started /\ RunSettled) =>
        /\ run.first = "exit" => RunCompleted /\ run.outcome.exitCode = run.child.code
        /\ run.first = "timer" => RunTimedOut
        /\ run.first = "abort" => run.outcome = Rejected(AbortedError)
        /\ run.first = "error" => run.outcome = Rejected(SpawnError)

----------------------------------------------------------------------------
\* C20: with a positive timeout every call that spawned its child reaches a
\* terminal outcome (the timer fires, a killed child ends and emits close);
\* once the call has its outcome the outcome never changes and the call spawns
\* no further process; a call spawns one child at most, and the outcome of a
\* call whose child ran is a result or the timeout failure.
C20_ReachesOneOutcome ==
    /\ \A call \in 1..MaxCalls :
          (run.call = call /\ run.started /\ ArmsTimer(run.timeoutSeconds))
              ~> (run.call = call /\ RunSettled)
    /\ [][(RunSettled /\ run'.call = run.call) =>
             (run'.outcome = run.outcome /\ run'.spawns = run.spawns)]_vars
    /\ [](/\ run.spawns <= 1
          /\ (RunSettled /\ run.child.ran) => (RunCompleted \/ RunTimedOut))

\* A call whose child was killed by the timer has ended timed out.
C20_Witness ==
    /\ run.started
    /\ ArmsTimer(run.timeoutSeconds)
    /\ run.child.killed
    /\ run.first = "timer"
    /\ run.child.state = "closed"
    /\ RunTimedOut
    /\ run.spawns = 1

----------------------------------------------------------------------------
\* The last n of the chunks.
LastChunks(chunks, n) == SubSeq(chunks, Len(chunks) - n + 1, Len(chunks))

\* C21: after every data event the chunks kept add up to 50 KiB at most, they
\* are the last ones of the chunks received, in the order they arrived, and
\* truncated is true exactly when more than 50 KiB were received so far; once
\* true, truncated does not return to false during the call.
C21_BufferInvariant ==
    /\ [](run.started =>
            /\ SumLen(run.chunks) <= MAX_BYTES
            /\ Len(run.chunks) <= Len(run.written)
            /\ run.chunks = LastChunks(run.written, Len(run.chunks))
            /\ run.total = SumLen(run.written)
            /\ run.truncated <=> (SumLen(run.written) > MAX_BYTES))
    /\ [][(run.truncated /\ run'.call = run.call) => run'.truncated]_vars

\* Two chunks arrived, the first was dropped and the second is kept.
C21_Witness ==
    /\ run.started
    /\ Len(run.written) = 2
    /\ Len(run.chunks) = 1
    /\ run.chunks[1] = run.written[2]
    /\ run.truncated
    /\ run.written[1].len <= MAX_BYTES
    /\ run.written[2].len <= MAX_BYTES

----------------------------------------------------------------------------
\* The walk's state, and what the line just processed is in the patch's hunks.
Walked == pure.fn = "walk" /\ pure.result.k > 0
WalkedLine == Numbered(pure.args[3])[pure.result.k]

\* The walk ends with what positionForNewLine returns.
WalkAgrees ==
    (pure.fn = "walk" /\ pure.done) =>
        LET r == positionForNewLine(Render(pure.args[3]), pure.args[2])
        IN  /\ r.found = pure.result.counters.returned
            /\ r.found => r.position = pure.result.counters.position

\* C22: at every line the walk processes position goes up by one (it never
\* stays or goes back); newLine goes up by one at an added line and at a
\* context line, stays as it is at a removed line and at a file-header line,
\* and changes in no other way except at a hunk header.
C22_WalkerInvariant ==
    Walked =>
        LET now == pure.result.counters
            was == pure.result.before
        IN  /\ now.position = was.position + 1
            /\ now.position = pure.result.k
            /\ WalkedLine.tag \in {"+", SP, "blank"} => now.newLine = was.newLine + 1
            /\ WalkedLine.tag \in {"-", "file"} => now.newLine = was.newLine
            /\ WalkedLine.tag # "@@" => now.newLine \in {was.newLine, was.newLine + 1}

\* Position alone: one more at every line, and so the number of lines processed.
WalkPositionCounts ==
    Walked => /\ pure.result.counters.position = pure.result.before.position + 1
              /\ pure.result.counters.position = pure.result.k

----------------------------------------------------------------------------
\* C23: every patch line that is not a hunk header, a file header, an added
\* line or a removed line counts as a context line, a blank line written as an
\* empty line inside a hunk included: at such a line newLine goes up by one
\* and is compared with the target (the walk returns there exactly when the
\* two are equal).
C23_ContextCounts ==
    (Walked /\ WalkedLine.tag \notin {"@@", "file", "+", "-"}) =>
        LET now == pure.result.counters
            was == pure.result.before
        IN  /\ now.newLine = was.newLine + 1
            /\ now.returned = (now.newLine = pure.args[2])

----------------------------------------------------------------------------
\* The positions of the added and context lines whose number in the new file,
\* counted from the start their hunk's header gives, is n.
LinesNumbered(patch, n) ==
    {k \in 1..Len(Numbered(patch)) :
        Numbered(patch)[k].tag \notin {"@@", "file", "-"} /\ Numbered(patch)[k].newNo = n}

\* C24: for every patch, of one hunk or more, and every target,
\* positionForNewLine returns the smallest position whose line is an added or
\* context line with the target as its new-file number (so never the position
\* of a removed line, a hunk header or a file header), and null when there is
\* no such line or the patch is absent or empty.
C24_SmallestPosition ==
    PosApplied =>
        LET lines == LinesNumbered(PosPatch, PosTarget)
        IN  /\ pure.result.found = (lines # {})
            /\ pure.result.found =>
                  /\ pure.result.position \in lines
                  /\ \A k \in lines : pure.result.position <= k

----------------------------------------------------------------------------
\* C25: for read, grep, find, ls, edit and write, every path argument that is
\* not a string (a number, an object, null, or left out) is blocked, and so is
\* every path string that contains ~, also one that names a place inside the
\* allowed root.
C25_PathPreChecks ==
    (event # Idle /\ event.toolName \in FsTools /\ GateDone) =>
        /\ ~IsString(event.input.path) => gate.block
        /\ (IsString(event.input.path) /\ Includes(event.input.path, <<"~">>)) => gate.block

----------------------------------------------------------------------------
ReviewRan == pure.fn \in {"main", "github_create_pr_review"} /\ pure.done
ReviewPosted == ReviewRan /\ pure.result.posts # <<>>
ReviewIn == pure.args[1]
ReviewFiles == pure.args[2]
ReviewCap == pure.args[3]

\* The first n comments of the model's output.
FirstComments(n) ==
    LET all == IF ReviewIn.isArray THEN ReviewIn.comments ELSE <<>>
    IN  [k \in 1..(IF n < Len(all) THEN n ELSE Len(all)) |-> all[k]]

\* The lookup of a comment's position, for a comment that names a line.
CommentLookup(p, line) == positionForNewLine(patchByPath(ReviewFiles, p), line.value)

\* A candidate as the claim has it: string path, string body, a line that is
\* a finite positive number, and a lookup that succeeds.
IsCandidate(c) ==
    /\ IsString(c.path) /\ IsString(c.body)
    /\ c.line.type = "number" /\ c.line.finite /\ c.line.value > 0
    /\ CommentLookup(c.path, c.line).found

\* A candidate of the tool: path and body not empty once converted to text,
\* the line converted to a number finite and positive, the lookup succeeds.
IsToolCandidate(c) ==
    /\ ToStr(c.path) # <<>> /\ ToStr(c.body) # <<>>
    /\ c.line.finite /\ c.line.value > 0
    /\ CommentLookup(ToStr(c.path), c.line).found

\* The comments of cs that are candidates (of the tool, or as the claim has
\* them), in order, each with its position.
RECURSIVE Kept(_, _, _)
Kept(cs, k, tool) ==
    IF k > Len(cs) THEN <<>>
    ELSE (IF (IF tool THEN IsToolCandidate(cs[k]) ELSE IsCandidate(cs[k]))
          THEN <<[path |-> ToStr(cs[k].path),
                  position |-> CommentLookup(ToStr(cs[k].path), cs[k].line).position,
                  body |-> ToStr(cs[k].body)]>>
          ELSE <<>>) \o Kept(cs, k + 1, tool)

\* The summary a review carries: the model's, or main's stand-in for none.
SummaryOf(review) ==
    IF pure.fn = "main"
    THEN (IF IsString(review.summary) THEN review.summary ELSE <<"(no summary)">>)
    ELSE Trim(ToStr(review.summary))

\* C26 as stated: whenever a review is posted, by main or by the
\* github_create_pr_review tool, exactly one request is sent, it carries the
\* summary, and its inline comments are the candidates among the first
\* comments up to the cap (string path, string body, finite positive line,
\* lookup successful), in order, each with the position positionForNewLine
\* returned; a comment whose lookup fails is dropped.
C26_PostedComments ==
    ReviewRan =>
        /\ Len(pure.result.posts) <= 1
        /\ ReviewPosted =>
              /\ pure.result.posts[1].body = SummaryOf(ReviewIn)
              /\ pure.result.posts[1].comments = Kept(FirstComments(ReviewCap), 1, FALSE)

\* C26, amended: main posts exactly one review with the summary, and its
\* inline comments are the candidates among the first maxComments comments,
\* in order, each with its position, failed lookups dropped; the tool, when
\* its summary is not blank, posts exactly one review whose inline comments
\* are, among the first 50 comments, those whose path and body are not empty
\* as text, whose line as a number is finite and positive and whose lookup
\* succeeds, in order, each with its position.
C26_PostedCommentsByEach ==
    ReviewRan =>
        /\ pure.fn = "main" =>
              /\ Len(pure.result.posts) = 1
              /\ pure.result.posts[1].body = SummaryOf(ReviewIn)
              /\ pure.result.posts[1].comments = Kept(FirstComments(ReviewCap), 1, FALSE)
        /\ pure.fn = "github_create_pr_review" =>
              /\ pure.result.threw = (SummaryOf(ReviewIn) = <<>>)
              /\ Len(pure.result.posts) = (IF pure.result.threw THEN 0 ELSE 1)
              /\ ReviewPosted =>
                    /\ pure.result.posts[1].body = SummaryOf(ReviewIn)
                    /\ pure.result.posts[1].comments =
                          Kept(FirstComments(ToolMaxComments), 1, TRUE)

\* main posted a review of three comments cut to two: the first failed its
\* lookup and was dropped, the second was posted with its position.
C26_Witness ==
    /\ ReviewPosted
    /\ pure.fn = "main"
    /\ Len(ReviewIn.comments) = 3
    /\ ReviewCap = 2
    /\ ReviewIn.comments[1] = Comment(FileF, Num(9), <<"b">>)
    /\ ReviewIn.comments[2] = Comment(FileF, Num(1), <<"b">>)
    /\ ReviewIn.comments[3] = Comment(FileF, Num(1), <<"b">>)
    /\ pure.result = Posted(<<"s">>, <<[path |-> FileF, position |-> 2, body |-> <<"b">>]>>)

----------------------------------------------------------------------------
ParseApplied == pure.fn = "parseAllowlist" /\ pure.done
ParseRaw == pure.args[1]

\* The entries of an allowlist text: what stands between one newline or comma
\* and the next, trimmed.
Entries(raw) ==
    LET seps   == {i \in 1..Len(raw) : raw[i] \in {NL, ","}}
        bounds == {0, Len(raw) + 1} \cup seps
        after(i) == CHOOSE j \in bounds : j > i /\ \A x \in bounds : x > i => j <= x
        RECURSIVE From(_)
        From(i) == IF i > Len(raw) THEN <<>>
                   ELSE <<Trim(SubSeq(raw, i + 1, after(i) - 1))>> \o From(after(i))
    IN  From(0)

IsStarPattern(s) == StartsWith(s, <<"*">>)

KeptEntry(s) == s # <<>> /\ ~StartsWith(s, <<"#">>)

\* C27: parseAllowlist splits the text on newlines and commas, trims each
\* entry and returns, in order, exactly the entries that are not empty and do
\* not start with #; a pattern that is * or starts with * is refused by the
\* parse, so no returned entry is one, and an allowlist made of such patterns
\* only is returned empty.
C27_ParsedAllowlist ==
    ParseApplied =>
        /\ \A k \in 1..Len(pure.result) : ~IsStarPattern(pure.result[k])
        /\ LET kept == SelectSeq(Entries(ParseRaw), KeptEntry)
           IN  /\ (\A k \in 1..Len(kept) : ~IsStarPattern(kept[k])) => pure.result = kept
               /\ (\A k \in 1..Len(kept) : IsStarPattern(kept[k])) => pure.result = <<>>

\* The first half of C27 alone: the entries kept, in order.
ParseKeepsEntries ==
    ParseApplied => pure.result = SelectSeq(Entries(ParseRaw), KeptEntry)

----------------------------------------------------------------------------
\* Bash's control operators of one character, the newline included.
BashOperators == {";", "|", "&", "<", ">", NL}

\* Bash's reading of a command line for control operators: inside single
\* quotes every character is literal, the backslash too, up to the next single
\* quote; inside double quotes and outside quotes a backslash takes the next
\* character. TRUE when an operator stands outside quotes and the line ends
\* with no quote open (bash runs nothing of a line it cannot parse).
RECURSIVE BashOperatorFrom(_, _, _, _)
BashOperatorFrom(command, i, quote, found) ==
    IF i > Len(command) THEN found /\ quote = "none"
    ELSE LET ch == command[i] IN
         IF quote = "single"
         THEN BashOperatorFrom(command, i + 1, IF ch = SQ THEN "none" ELSE quote, found)
         ELSE IF ch = BS THEN BashOperatorFrom(command, i + 2, quote, found)
         ELSE IF quote = "double"
              THEN BashOperatorFrom(command, i + 1, IF ch = DQ THEN "none" ELSE quote, found)
         ELSE IF ch = SQ THEN BashOperatorFrom(command, i + 1, "single", found)
         ELSE IF ch = DQ THEN BashOperatorFrom(command, i + 1, "double", found)
         ELSE BashOperatorFrom(command, i + 1, quote, found \/ ch \in BashOperators)

BashSeesOperator(command) == BashOperatorFrom(command, 1, "none", FALSE)

\* C28: the scanner's quote tracking agrees with bash's: every command in
\* which bash reads a control operator (; | & < > or a newline) outside quotes
\* is flagged by containsShellOperators, one with a backslash inside single
\* quotes included; so a command the scanner passes is a single simple
\* command to bash.
C28_ScannerAgreesWithBash ==
    (ScanApplied /\ BashSeesOperator(ScanText)) => pure.result

----------------------------------------------------------------------------
\* C29: the two bash gates decide alike: for every command and every
\* configuration (allowlist text, expected branch, allowForce) the tool_call
\* handler blocks the command exactly when execute rejects it before it
\* spawns anything.
C29_GatesDecideAlike ==
    (IsBashCall /\ GateDone /\ ExecDone) =>
        (gate.block <=> (exec.threw /\ exec.children = <<>>))

----------------------------------------------------------------------------
\* The value bash gives ${NAME} in the child: IFS has its default, space, tab
\* and newline; the other names of the model are unset and expand to nothing.
BashValue(name) == IF name = <<"I", "F", "S">> THEN <<SP, TAB, NL>> ELSE <<>>

\* The index of the first } from i on, or past the end when there is none.
RECURSIVE CloseBrace(_, _)
CloseBrace(cmd, i) ==
    IF i > Len(cmd) \/ cmd[i] = "}" THEN i ELSE CloseBrace(cmd, i + 1)

\* Whether ${ stands at i.
ExpandsAt(cmd, i) == i < Len(cmd) /\ cmd[i] = "$" /\ cmd[i + 1] = "{"

\* The words bash makes of a simple command: quotes are removed, and a quoted
\* word is a word even when empty (started); inside single quotes everything is
\* literal; outside quotes a backslash makes the next character literal, and
\* inside double quotes only before $, backtick, double quote and backslash
\* (before any other character the backslash stays); ${NAME} is replaced by its
\* value, which outside quotes is split into words at white space. value is
\* what is left of an unquoted expansion being split.
RECURSIVE BashWordsFrom(_, _, _, _, _, _, _)
BashWordsFrom(cmd, i, out, cur, started, quote, value) ==
    LET ended == IF started THEN Append(out, cur) ELSE out IN
    IF value # <<>>
    THEN IF IsSpace(Head(value))
         THEN BashWordsFrom(cmd, i, ended, <<>>, FALSE, quote, Tail(value))
         ELSE BashWordsFrom(cmd, i, out, Append(cur, Head(value)), TRUE, quote, Tail(value))
    ELSE IF i > Len(cmd) THEN ended
    ELSE LET ch == cmd[i] IN
         IF quote = "single"
         THEN IF ch = SQ THEN BashWordsFrom(cmd, i + 1, out, cur, TRUE, "none", <<>>)
              ELSE BashWordsFrom(cmd, i + 1, out, Append(cur, ch), TRUE, quote, <<>>)
         ELSE IF ExpandsAt(cmd, i)
              THEN LET close == CloseBrace(cmd, i + 2)
                       text  == BashValue(SubSeq(cmd, i + 2, close - 1))
                   IN  IF quote = "double"
                       THEN BashWordsFrom(cmd, close + 1, out, cur \o text, TRUE, quote, <<>>)
                       ELSE BashWordsFrom(cmd, close + 1, out, cur, started, quote, text)
         ELSE IF quote = "double"
         THEN IF ch = DQ THEN BashWordsFrom(cmd, i + 1, out, cur, TRUE, "none", <<>>)
              ELSE IF ch = BS /\ i < Len(cmd) /\ cmd[i + 1] \in {"$", BQ, DQ, BS}
                   THEN BashWordsFrom(cmd, i + 2, out, Append(cur, cmd[i + 1]), TRUE, quote, <<>>)
              ELSE BashWordsFrom(cmd, i + 1, out, Append(cur, ch), TRUE, quote, <<>>)
         ELSE IF ch = BS
              THEN IF i < Len(cmd)
                   THEN BashWordsFrom(cmd, i + 2, out, Append(cur, cmd[i + 1]), TRUE, quote, <<>>)
                   ELSE BashWordsFrom(cmd, i + 1, out, Append(cur, ch), TRUE, quote, <<>>)
         ELSE IF ch = SQ THEN BashWordsFrom(cmd, i + 1, out, cur, TRUE, "single", <<>>)
         ELSE IF ch = DQ THEN BashWordsFrom(cmd, i + 1, out, cur, TRUE, "double", <<>>)
         ELSE IF IsSpace(ch) THEN BashWordsFrom(cmd, i + 1, ended, <<>>, FALSE, quote, <<>>)
         ELSE BashWordsFrom(cmd, i + 1, out, Append(cur, ch), TRUE, quote, <<>>)

\* The argument vector of the command bash -lc runs, the command name first.
BashArgv(command) == BashWordsFrom(command, 1, <<>>, <<>>, FALSE, "none", <<>>)

\* C30: for every git push command that passed validateGitPush and was
\* spawned, the tokens splitArgs made of it are the argument vector bash hands
\* to git: none dropped (an empty quoted argument included), none changed and
\* none multiplied by an expansion.
C30_TokensAreArgv ==
    (IsBashCall /\ ExecSpawned /\ ExecIsPush(TheCommand)) =>
        splitArgs(TheCommand) = BashArgv(TheCommand)

----------------------------------------------------------------------------
====
